---- MODULE Spec2Model ----
(***************************************************************************)
(* The valence puzzle: GameState (graph/state.rs) over the 3x3 king's      *)
(* graph, its EdgeSet and Valences, and the PuzzleSession                  *)
(* (game/session.rs) that wraps one GameState and records the distinct     *)
(* solutions found.                                                        *)
(***************************************************************************)
EXTENDS Integers, Sequences, FiniteSets, TLC

(* ------------------------------------------------------------------ *)
(* Bounds of the model                                                  *)
(* ------------------------------------------------------------------ *)

\* Largest valence of a cell of a generated puzzle configuration.
MaxValence == 2

\* How many edges of a long trail are drawn freely, past a fixed beginning.
FreeMoves == 12

\* How many different edges the standalone edge collections are given.
MaxUnitEdges == 4

\* The vectors of pairwise distinct entries given to the symmetries hold the
\* values 1..9 in some order, times a factor of 1..MaxScale.
MaxScale == 2

\* Longest corpus, in lines, given to the loader.
MaxLines == 3

\* Largest total_solutions estimate handed to a session.
MaxTotalSolutions == 1
MaxGameLevel == 4

(* ------------------------------------------------------------------ *)
(* kings_graph.rs                                                       *)
(* ------------------------------------------------------------------ *)

NodeIds == 0..8

Min(a, b) == IF a <= b THEN a ELSE b
Max(a, b) == IF a >= b THEN a ELSE b

\* GridPos::from_node_id: row = id / 3, col = id % 3
from_node_id(node) == [row |-> node \div 3, col |-> node % 3]

Abs(x) == IF x < 0 THEN -x ELSE x

\* is_adjacent on the signed differences, without the absolute value.
is_adjacent_NoAbs(p, q) ==
    IF p = q
    THEN FALSE
    ELSE p.row - q.row <= 1 /\ p.col - q.col <= 1

\* GridPos::is_adjacent
is_adjacent(p, q) ==
    IF p = q
    THEN FALSE
    ELSE Abs(p.row - q.row) <= 1 /\ Abs(p.col - q.col) <= 1

\* KingsGraph::new_3x3: adjacency[i] lists, in ascending order, every j # i
\* whose grid position is adjacent to that of i.
adjacency ==
    [i \in NodeIds |->
        {j \in NodeIds : i # j /\ is_adjacent(from_node_id(i), from_node_id(j))}]

\* are_adjacent that also joins the cells 1 and 7, two rows apart.
are_adjacent_OneMore(a, b) ==
    IF a >= 9 \/ b >= 9 THEN FALSE ELSE b \in adjacency[a] \/ {a, b} = {1, 7}

\* KingsGraph::are_adjacent
are_adjacent(a, b) ==
    IF a >= 9 \/ b >= 9 THEN FALSE ELSE b \in adjacency[a]

\* KingsGraph::neighbors
neighbors(node) == adjacency[node]

(* ------------------------------------------------------------------ *)
(* edge.rs                                                              *)
(* ------------------------------------------------------------------ *)

\* Edge::new that stores the pair as given.
EdgeNew_AsGiven(a, b) == <<a, b>>

\* Edge::new: the pair with the smaller id first.
EdgeNew(a, b) == IF a <= b THEN <<a, b>> ELSE <<b, a>>

\* Edge::contains_node
contains_node(edge, node) == edge[1] = node \/ edge[2] = node

\* EdgeSet::new
EdgeSetNew == [edges |-> {}, draw_order |-> <<>>]

\* EdgeSet::add that pushes onto draw_order whatever the set insert returned.
EdgeSetAdd_AlwaysPush(es, edge) ==
    [edges |-> es.edges \cup {edge}, draw_order |-> Append(es.draw_order, edge)]

\* EdgeSet::add: push onto draw_order only when the set insert was new.
EdgeSetAdd(es, edge) ==
    IF edge \notin es.edges
    THEN [edges |-> es.edges \cup {edge}, draw_order |-> Append(es.draw_order, edge)]
    ELSE es

\* EdgeSet::add's return value: whether the set insert was new.
EdgeSetAddIsNew(es, edge) == edge \notin es.edges

\* EdgeSet::contains
EdgeSetContains(es, edge) == edge \in es.edges

\* EdgeSet::pop that forgets to remove the edge from the lookup set.
EdgeSetPop_KeepsSet(es) ==
    IF Len(es.draw_order) > 0
    THEN [edges |-> es.edges,
          draw_order |-> SubSeq(es.draw_order, 1, Len(es.draw_order) - 1)]
    ELSE es

\* EdgeSet::pop: the EdgeSet after the pop (unchanged when draw_order is empty).
EdgeSetPop(es) ==
    IF Len(es.draw_order) > 0
    THEN [edges |-> es.edges \ {es.draw_order[Len(es.draw_order)]},
          draw_order |-> SubSeq(es.draw_order, 1, Len(es.draw_order) - 1)]
    ELSE es

\* EdgeSet::pop's return value is Some(edge) exactly when draw_order is non-empty.
EdgeSetPopIsSome(es) == Len(es.draw_order) > 0

\* EdgeSet::pop's Some(edge): the edge draw_order.pop() gave.
EdgeSetPopEdge(es) == es.draw_order[Len(es.draw_order)]

\* EdgeSet::len
EdgeSetLen(es) == Cardinality(es.edges)

\* EdgeSet::clear that forgets the draw-order list.
EdgeSetClear_KeepsOrder(es) == [edges |-> {}, draw_order |-> es.draw_order]

\* EdgeSet::clear
EdgeSetClear(es) == [edges |-> {}, draw_order |-> <<>>]

\* EdgeSet::degree
\* degree that counts only the edges the node is the smaller end of.
degree_FromOnly(es, node) == Cardinality({e \in es.edges : e[1] = node})

degree(es, node) == Cardinality({e \in es.edges : contains_node(e, node)})

(* ------------------------------------------------------------------ *)
(* valences.rs                                                          *)
(* ------------------------------------------------------------------ *)

\* Valences::decrement (usize: the subtraction at 0 is the underflow)
ValencesDecrement(v, node) == [v EXCEPT ![node] = @ - 1]

\* Valences::increment
ValencesIncrement(v, node) == [v EXCEPT ![node] = @ + 1]

\* Valences::all_zero
all_zero(v) == \A n \in NodeIds : v[n] = 0

RECURSIVE SumUpTo(_, _)
SumUpTo(v, n) == IF n < 0 THEN 0 ELSE v[n] + SumUpTo(v, n - 1)

\* Valences::total
total(v) == SumUpTo(v, 8)

(* ------------------------------------------------------------------ *)
(* solution.rs                                                          *)
(* ------------------------------------------------------------------ *)

\* Solution::from_edge_set that misses the edge drawn last.
from_edge_set_DropsLast(es) ==
    {es.draw_order[i] : i \in 1..(Len(es.draw_order) - 1)}

\* Solution::from_edge_set: the draw-order list collected into a HashSet<Edge>.
from_edge_set(es) == {es.draw_order[i] : i \in DOMAIN es.draw_order}

\* The key |e| (e.from, e.to) of sort_unstable_by_key, as one number.
EdgeKey(e) == e[1] * 9 + e[2]

RECURSIVE SortedEdges(_)
SortedEdges(s) ==
    IF s = {}
    THEN <<>>
    ELSE LET m == CHOOSE e \in s : \A f \in s : EdgeKey(e) <= EdgeKey(f)
         IN <<m>> \o SortedEdges(s \ {m})

\* impl Hash for Solution: what is fed to the hasher, the edges sorted by
\* (from, to).
SolutionHash(sol) == SortedEdges(sol)

\* HashSet<Solution>::contains: same hash, then PartialEq on the edge sets.
HashSetContains(set, sol) ==
    \E f \in set : SolutionHash(f) = SolutionHash(sol) /\ f = sol

\* A Solution on its own is held as the sequence its HashSet<Edge> iterates
\* in, an order the standard library leaves unspecified.

\* Solution::new
SolutionNew == <<>>

\* Solution::add_edge: HashSet::insert keeps a set that holds the edge as it
\* is and else puts the edge somewhere, pos, in the iteration order.
add_edge(it, edge, pos) ==
    IF \E i \in 1..Len(it) : it[i] = edge
    THEN it
    ELSE SubSeq(it, 1, pos - 1) \o <<edge>> \o SubSeq(it, pos, Len(it))

\* #[derive(PartialEq, Eq)] on Solution: HashSet's equality, the same length
\* and every edge of the one contained in the other.
SolutionEq(x, y) ==
    /\ Len(x) = Len(y)
    /\ \A i \in 1..Len(x) : \E j \in 1..Len(y) : y[j] = x[i]

\* sort_unstable_by_key(|e| (e.from, e.to)) on the collected edges (no two
\* edges of a set share a key, so the unstable sort has one outcome).
RECURSIVE SortByKey(_)
SortByKey(seq) ==
    IF seq = <<>>
    THEN <<>>
    ELSE LET rest == SortByKey(Tail(seq))
             e == Head(seq)
             k == Cardinality({i \in 1..Len(rest) : EdgeKey(rest[i]) < EdgeKey(e)})
         IN SubSeq(rest, 1, k) \o <<e>> \o SubSeq(rest, k + 1, Len(rest))

\* A Hash for Solution that feeds the hasher in iteration order, unsorted.
SolutionHashOfIter_Unsorted(it) == it

\* impl Hash for Solution on the iteration order: collect, sort by key, feed
\* each edge to the hasher.
SolutionHashOfIter(it) == SortByKey(it)

\* HashSet<Solution>::contains: an entry with the same hash that is equal.
HashSetLookup(set, it) ==
    \E f \in set : SolutionHashOfIter(f) = SolutionHashOfIter(it) /\ SolutionEq(f, it)

(* ------------------------------------------------------------------ *)
(* Inputs                                                               *)
(* ------------------------------------------------------------------ *)

zeros == [n \in NodeIds |-> 0]

\* The 2x2 block of mutually adjacent cells on which configurations are
\* generated exhaustively.
Block == {0, 1, 3, 4}

BlockTargets ==
    { [n \in NodeIds |-> IF n \in Block THEN f[n] ELSE 0] :
          f \in [Block -> 0..MaxValence] }

\* Configurations beyond those: a path 0-1-2 whose ends are not adjacent, and
\* the block with two cells of valence 3, solved only by revisiting cells.
OtherTargets ==
    { [n \in NodeIds |-> IF n \in {0, 2} THEN 1 ELSE IF n = 1 THEN 2 ELSE 0],
      [n \in NodeIds |-> IF n \in {0, 1} THEN 3 ELSE IF n \in {3, 4} THEN 2 ELSE 0] }

Targets == BlockTargets \cup OtherTargets

\* The configurations a running session is replaced with: those of
\* test_new_puzzle_clears_solutions and the ones beyond the block.  A session
\* just replaced is a session just created, and Init creates one for every
\* configuration of Targets.
NewPuzzleTargets ==
    { [n \in NodeIds |-> IF n \in {0, 1} THEN 1 ELSE 0],
      [n \in NodeIds |-> IF n \in {0, 1, 3} THEN 2 ELSE 0] } \cup OtherTargets

Totals == 0..MaxTotalSolutions

(* ------------------------------------------------------------------ *)
(* State                                                                *)
(* ------------------------------------------------------------------ *)

VARIABLES
    puzzle_valences,    \* GameState.puzzle_valences (the target)
    current_valences,   \* GameState.current_valences
    edges,              \* GameState.edges: an EdgeSet [edges, draw_order]
    current_trail,      \* GameState.current_trail
    found_solutions,    \* PuzzleSession.found_solutions
    total_solutions,    \* PuzzleSession.total_solutions
    last,               \* the last call and what it returned
    pre_add,            \* the GameState before the add the last call made
    completions,        \* the edge sets of the completions of this session
    unit                \* the value a component is exercised on, outside a session

game == <<puzzle_valences, current_valences, edges, current_trail>>

vars == <<puzzle_valences, current_valences, edges, current_trail,
          found_solutions, total_solutions, last, pre_add, completions, unit>>

\* The record of a call: op and its arguments (node; valences and total), what
\* it returned (kind, err, is_new, solution; removed for undo), and for reset
\* and new_puzzle how many edges and found solutions there were at the call.
NoResult(op) ==
    [op |-> op, node |-> 0, valences |-> zeros, total |-> 0,
     kind |-> "None", err |-> "None", is_new |-> FALSE, solution |-> {},
     removed |-> FALSE, edges_before |-> 0, found_before |-> 0]

NoSnapshot ==
    [valid |-> FALSE, current_valences |-> zeros, edges |-> EdgeSetNew,
     current_trail |-> <<>>]

Snapshot ==
    [valid |-> TRUE, current_valences |-> current_valences, edges |-> edges,
     current_trail |-> current_trail]

\* A session exercises no component on its own.
NoUnit == [op |-> "none"]

(* ------------------------------------------------------------------ *)
(* state.rs: GameState                                                  *)
(* ------------------------------------------------------------------ *)

\* GameState::valence
valence(node) == current_valences[node]

\* GameState::total_remaining_valence
total_remaining_valence == total(current_valences)

\* is_last_edge off by one unit of valence.
is_last_edge_OffByOne == total_remaining_valence = 1

\* is_last_edge that never holds the valence-1 rule back.
is_last_edge_Always == TRUE

\* GameState::is_last_edge
is_last_edge == total_remaining_valence = 2

\* is_complete that holds when one edge's worth of valence is left.
is_complete_AsLastEdge(v) == total(v) = 2

\* is_complete with any() for all().
is_complete_AnyZero(v) == \E n \in NodeIds : v[n] = 0

\* GameState::is_complete, of a valence vector
is_complete(v) == all_zero(v)

LastNode == current_trail[Len(current_trail)]

\* can_add_node without the check of the cell's valence.
can_add_node_NoValenceCheck(node) ==
    IF current_trail = <<>> THEN "Ok"
    ELSE IF node = LastNode THEN "SameNodeTwice"
    ELSE IF ~are_adjacent(node, LastNode) THEN "NodesNotAdjacent"
    ELSE IF EdgeSetContains(edges, EdgeNew(node, LastNode)) THEN "EdgeAlreadyExists"
    ELSE IF valence(node) = 1 /\ ~is_last_edge THEN "CannotAddValenceOne"
    ELSE "Ok"

\* can_add_node without the check of adjacency.
can_add_node_NoAdjacencyCheck(node) ==
    IF valence(node) = 0 THEN "NodeHasNoValence"
    ELSE IF current_trail = <<>> THEN "Ok"
    ELSE IF node = LastNode THEN "SameNodeTwice"
    ELSE IF EdgeSetContains(edges, EdgeNew(node, LastNode)) THEN "EdgeAlreadyExists"
    ELSE IF valence(node) = 1 /\ ~is_last_edge THEN "CannotAddValenceOne"
    ELSE "Ok"

\* can_add_node that accepts the first node before looking at its valence.
can_add_node_EmptyTrailFirst(node) ==
    IF current_trail = <<>> THEN "Ok"
    ELSE IF valence(node) = 0 THEN "NodeHasNoValence"
    ELSE IF node = LastNode THEN "SameNodeTwice"
    ELSE IF ~are_adjacent(node, LastNode) THEN "NodesNotAdjacent"
    ELSE IF EdgeSetContains(edges, EdgeNew(node, LastNode)) THEN "EdgeAlreadyExists"
    ELSE IF valence(node) = 1 /\ ~is_last_edge THEN "CannotAddValenceOne"
    ELSE "Ok"

\* GameState::can_add_node: "Ok" or the ValidationError it returns.
can_add_node(node) ==
    IF valence(node) = 0 THEN "NodeHasNoValence"
    ELSE IF current_trail = <<>> THEN "Ok"
    ELSE IF node = LastNode THEN "SameNodeTwice"
    ELSE IF ~are_adjacent(node, LastNode) THEN "NodesNotAdjacent"
    ELSE IF EdgeSetContains(edges, EdgeNew(node, LastNode)) THEN "EdgeAlreadyExists"
    ELSE IF valence(node) = 1 /\ ~is_last_edge THEN "CannotAddValenceOne"
    ELSE "Ok"

\* add_node that decrements the new cell only.
AddNodeValences_OneDecrement(node) == ValencesDecrement(current_valences, node)

\* GameState::add_node past validation, on a non-empty trail: the valences
\* after the two decrements.
AddNodeValences(node) ==
    ValencesDecrement(ValencesDecrement(current_valences, node), LastNode)

\* add_node that pushes the cell onto the trail before it validates.
GameAddNode_PushBeforeValidate(node) ==
    LET err == can_add_node(node) IN
    IF err # "Ok"
    THEN [kind |-> "Invalid", err |-> err,
          current_valences |-> current_valences, edges |-> edges,
          current_trail |-> Append(current_trail, node)]
    ELSE IF current_trail = <<>>
    THEN [kind |-> "FirstNode", err |-> "None",
          current_valences |-> current_valences, edges |-> edges,
          current_trail |-> Append(current_trail, node)]
    ELSE LET v == ValencesDecrement(ValencesDecrement(current_valences, node), LastNode) IN
         [kind |-> IF is_complete(v) THEN "PuzzleComplete" ELSE "EdgeAdded",
          err |-> "None",
          current_valences |-> v,
          edges |-> EdgeSetAdd(edges, EdgeNew(node, LastNode)),
          current_trail |-> Append(current_trail, node)]

\* GameState::add_node: validation, then the first node or the new edge.
GameAddNode(node) ==
    LET err == can_add_node(node) IN
    IF err # "Ok"
    THEN [kind |-> "Invalid", err |-> err,
          current_valences |-> current_valences, edges |-> edges,
          current_trail |-> current_trail]
    ELSE IF current_trail = <<>>
    THEN [kind |-> "FirstNode", err |-> "None",
          current_valences |-> current_valences, edges |-> edges,
          current_trail |-> Append(current_trail, node)]
    ELSE LET v == AddNodeValences(node) IN
         [kind |-> IF is_complete(v) THEN "PuzzleComplete" ELSE "EdgeAdded",
          err |-> "None",
          current_valences |-> v,
          edges |-> EdgeSetAdd(edges, EdgeNew(node, LastNode)),
          current_trail |-> Append(current_trail, node)]

\* pop_node that leaves a trail of one cell as it is.
GamePopNode_KeepsFirst ==
    IF Len(current_trail) <= 1
    THEN [removed |-> FALSE, node |-> 0,
          current_valences |-> current_valences, edges |-> edges,
          current_trail |-> current_trail]
    ELSE LET node == LastNode
             prev_node == current_trail[Len(current_trail) - 1]
         IN [removed |-> TRUE, node |-> node,
             current_valences |->
                 IF EdgeSetPopIsSome(edges)
                 THEN ValencesIncrement(ValencesIncrement(current_valences, node),
                                        prev_node)
                 ELSE current_valences,
             edges |-> EdgeSetPop(edges),
             current_trail |-> SubSeq(current_trail, 1, Len(current_trail) - 1)]

\* pop_node that gives both units of valence back to the removed cell.
GamePopNode_RestoresOneCell ==
    IF Len(current_trail) <= 1
    THEN [removed |-> FALSE, node |-> 0,
          current_valences |-> current_valences, edges |-> edges,
          current_trail |-> <<>>]
    ELSE LET node == LastNode
         IN [removed |-> TRUE, node |-> node,
             current_valences |->
                 IF EdgeSetPopIsSome(edges)
                 THEN ValencesIncrement(ValencesIncrement(current_valences, node),
                                        node)
                 ELSE current_valences,
             edges |-> EdgeSetPop(edges),
             current_trail |-> SubSeq(current_trail, 1, Len(current_trail) - 1)]

\* GameState::pop_node
GamePopNode ==
    IF Len(current_trail) <= 1
    THEN [removed |-> FALSE, node |-> 0,
          current_valences |-> current_valences, edges |-> edges,
          current_trail |-> <<>>]
    ELSE LET node == LastNode
             prev_node == current_trail[Len(current_trail) - 1]
         IN [removed |-> TRUE, node |-> node,
             current_valences |->
                 IF EdgeSetPopIsSome(edges)
                 THEN ValencesIncrement(ValencesIncrement(current_valences, node),
                                        prev_node)
                 ELSE current_valences,
             edges |-> EdgeSetPop(edges),
             current_trail |-> SubSeq(current_trail, 1, Len(current_trail) - 1)]

\* reset that leaves the current valences as they are.
GameReset_KeepsValences ==
    [current_valences |-> current_valences,
     edges |-> EdgeSetClear(edges),
     current_trail |-> <<>>]

\* GameState::reset
GameReset ==
    [current_valences |-> puzzle_valences,
     edges |-> EdgeSetClear(edges),
     current_trail |-> <<>>]

\* valid_next_nodes that filters by the cell's valence alone.
valid_next_nodes_ByValence == {node \in NodeIds : valence(node) # 0}

\* GameState::valid_next_nodes: the cells of the Vec it returns, which lists
\* them in ascending order, each once.
valid_next_nodes == {node \in NodeIds : can_add_node(node) = "Ok"}

\* nodes_that_should_flee that does not leave the trail's last cell out.
nodes_that_should_flee_KeepsLast ==
    IF current_trail = <<>> THEN {}
    ELSE {node \in NodeIds : can_add_node(node) # "Ok"}

\* GameState::nodes_that_should_flee: the cells of the Vec it returns, which
\* lists them in ascending order, each once.
nodes_that_should_flee ==
    IF current_trail = <<>> THEN {}
    ELSE {node \in NodeIds : node # LastNode /\ can_add_node(node) # "Ok"}

\* count_available_edges that counts neighbours across drawn edges too.
count_available_edges_IgnoresDrawn(node) ==
    Cardinality({neighbor \in neighbors(node) : valence(neighbor) > 0})

\* count_available_edges that asks a neighbour for two units of valence.
count_available_edges_NeedsTwo(node) ==
    Cardinality({neighbor \in neighbors(node) :
                    /\ ~EdgeSetContains(edges, EdgeNew(node, neighbor))
                    /\ valence(neighbor) > 1})

\* GameState::count_available_edges
count_available_edges(node) ==
    Cardinality({neighbor \in neighbors(node) :
                    /\ ~EdgeSetContains(edges, EdgeNew(node, neighbor))
                    /\ valence(neighbor) > 0})

\* is_degenerate that also reports a cell with exactly as many available
\* edges as valence.
is_degenerate_OffByOne ==
    \E node \in NodeIds :
        /\ valence(node) # 0
        /\ valence(node) >= count_available_edges(node)

\* GameState::is_degenerate: the loop returns true at the first cell with
\* non-zero valence above its count of available edges.
is_degenerate ==
    \E node \in NodeIds :
        /\ valence(node) # 0
        /\ valence(node) > count_available_edges(node)

(* ------------------------------------------------------------------ *)
(* session.rs: PuzzleSession                                            *)
(* ------------------------------------------------------------------ *)

\* PuzzleSession::is_solution_known
is_solution_known(solution) == HashSetContains(found_solutions, solution)

\* PuzzleSession::new
Init ==
    /\ puzzle_valences \in Targets
    /\ current_valences = puzzle_valences
    /\ edges = EdgeSetNew
    /\ current_trail = <<>>
    /\ found_solutions = {}
    /\ total_solutions \in Totals
    /\ last = NoResult("new")
    /\ pre_add = NoSnapshot
    /\ completions = {}
    /\ unit = NoUnit

\* PuzzleSession::add_node; r is what self.state.add_node(node) returns and
\* leaves as the GameState.
AddNode(node) ==
    \E r \in {GameAddNode(node)} :
    LET solution == from_edge_set(r.edges)
        is_new == ~is_solution_known(solution)
    IN
    /\ current_valences' = r.current_valences
    /\ edges' = r.edges
    /\ current_trail' = r.current_trail
    /\ found_solutions' =
           IF r.kind = "PuzzleComplete" /\ is_new
           THEN found_solutions \cup {solution}
           ELSE found_solutions
    /\ last' = [NoResult("add") EXCEPT
                    !.node = node,
                    !.kind = IF r.kind = "PuzzleComplete" THEN "Complete" ELSE r.kind,
                    !.err = r.err,
                    !.is_new = r.kind = "PuzzleComplete" /\ is_new,
                    !.solution = IF r.kind = "PuzzleComplete" THEN solution ELSE {}]
    /\ pre_add' = IF r.kind = "Invalid" THEN NoSnapshot ELSE Snapshot
    /\ completions' =
           IF r.kind = "PuzzleComplete"
           THEN completions \cup {r.edges.edges}
           ELSE completions
    /\ UNCHANGED <<puzzle_valences, total_solutions, unit>>

\* PuzzleSession::undo
Undo ==
    \E r \in {GamePopNode} :
    /\ current_valences' = r.current_valences
    /\ edges' = r.edges
    /\ current_trail' = r.current_trail
    /\ last' = [NoResult("undo") EXCEPT !.removed = r.removed, !.node = r.node,
                                        !.kind = IF last.op = "add" /\ last.kind # "Invalid"
                                                 THEN "AfterAdd" ELSE "None"]
    /\ pre_add' = IF last.op = "add" /\ last.kind # "Invalid" THEN pre_add ELSE NoSnapshot
    /\ UNCHANGED <<puzzle_valences, found_solutions, total_solutions, completions, unit>>

\* PuzzleSession::reset
Reset ==
    \E r \in {GameReset} :
    /\ current_valences' = r.current_valences
    /\ edges' = r.edges
    /\ current_trail' = r.current_trail
    /\ last' = [NoResult("reset") EXCEPT
                    !.edges_before = EdgeSetLen(edges),
                    !.found_before = Cardinality(found_solutions)]
    /\ pre_add' = NoSnapshot
    /\ UNCHANGED <<puzzle_valences, found_solutions, total_solutions, completions, unit>>

\* new_puzzle that forgets to clear the found solutions.
NewPuzzle_KeepsFound(valences, total_sol) ==
    /\ puzzle_valences' = valences
    /\ current_valences' = valences
    /\ edges' = EdgeSetNew
    /\ current_trail' = <<>>
    /\ total_solutions' = total_sol
    /\ last' = [NoResult("new_puzzle") EXCEPT
                    !.valences = valences,
                    !.total = total_sol,
                    !.edges_before = EdgeSetLen(edges),
                    !.found_before = Cardinality(found_solutions)]
    /\ pre_add' = NoSnapshot
    /\ UNCHANGED <<found_solutions, completions, unit>>

\* PuzzleSession::new_puzzle
NewPuzzle(valences, total_sol) ==
    /\ puzzle_valences' = valences
    /\ current_valences' = valences
    /\ edges' = EdgeSetNew
    /\ current_trail' = <<>>
    /\ found_solutions' = {}
    /\ total_solutions' = total_sol
    /\ last' = [NoResult("new_puzzle") EXCEPT
                    !.valences = valences,
                    !.total = total_sol,
                    !.edges_before = EdgeSetLen(edges),
                    !.found_before = Cardinality(found_solutions)]
    /\ pre_add' = NoSnapshot
    /\ completions' = {}
    /\ UNCHANGED unit

\* PuzzleSession::progress: the ProgressInfo built, total_solutions being the
\* Option (always Some here).
progress ==
    [solutions_found |-> Cardinality(found_solutions),
     total_solutions |-> [some |-> TRUE, value |-> total_solutions],
     current_edges |-> EdgeSetLen(edges)]

\* ProgressInfo::is_complete with > for >=.
ProgressInfoIsComplete_Strict(info) ==
    IF info.total_solutions.some
    THEN info.solutions_found > info.total_solutions.value
    ELSE FALSE

\* ProgressInfo::is_complete asking for a found solution as well.
ProgressInfoIsComplete_NeedsFound(info) ==
    IF info.total_solutions.some
    THEN info.solutions_found >= info.total_solutions.value /\ info.solutions_found > 0
    ELSE FALSE

\* ProgressInfo::is_complete: map_or(false, |total| solutions_found >= total)
ProgressInfoIsComplete(info) ==
    IF info.total_solutions.some
    THEN info.solutions_found >= info.total_solutions.value
    ELSE FALSE

Next ==
    \/ \E node \in NodeIds : AddNode(node)
    \/ Undo
    \/ Reset
    \/ \E valences \in NewPuzzleTargets, total_sol \in Totals : NewPuzzle(valences, total_sol)

Spec == Init /\ [][Next]_vars

(* ------------------------------------------------------------------ *)
(* kings_graph.rs and edge.rs on their own: Edge::new and the graph      *)
(* queries applied to every pair of cells                                *)
(* ------------------------------------------------------------------ *)

session == <<puzzle_valences, current_valences, edges, current_trail,
             found_solutions, total_solutions, last, pre_add, completions>>

\* No session is played while a component is exercised on its own.
IdleSession ==
    /\ puzzle_valences = zeros
    /\ current_valences = zeros
    /\ edges = EdgeSetNew
    /\ current_trail = <<>>
    /\ found_solutions = {}
    /\ total_solutions = 0
    /\ last = NoResult("new")
    /\ pre_add = NoSnapshot
    /\ completions = {}

\* The inputs: two cells a and b.
GraphInit ==
    /\ IdleSession
    /\ unit \in [op : {"cells"}, a : NodeIds, b : NodeIds]

\* Edge::new(a, b) and Edge::new(b, a)
MakeEdges ==
    /\ unit.op = "cells"
    /\ unit' = [op |-> "edges", a |-> unit.a, b |-> unit.b,
                ab |-> EdgeNew(unit.a, unit.b),
                ba |-> EdgeNew(unit.b, unit.a)]
    /\ UNCHANGED session

\* KingsGraph::new_3x3(), then are_adjacent(a, b), are_adjacent(b, a) and
\* neighbors(a)
QueryGraph ==
    /\ unit.op = "cells"
    /\ unit' = [op |-> "graph", a |-> unit.a, b |-> unit.b,
                ab |-> are_adjacent(unit.a, unit.b),
                ba |-> are_adjacent(unit.b, unit.a),
                neighbors |-> neighbors(unit.a)]
    /\ UNCHANGED session

GraphNext == MakeEdges \/ QueryGraph

SpecGraph == GraphInit /\ [][GraphNext]_vars

(* ------------------------------------------------------------------ *)
(* edge.rs on its own: an EdgeSet under any sequence of add, pop, clear  *)
(* ------------------------------------------------------------------ *)

\* The edges given to add, adjacent or not: the first MaxUnitEdges of
\* Edge::new(1, 0), Edge::new(2, 1), Edge::new(3, 2), ...
UnitEdges == {EdgeNew(c, c - 1) : c \in 1..MaxUnitEdges}

\* The record of an EdgeSet call: the collection after it, the edge given or
\* returned, the bool returned (add) or whether Some was returned (pop), and
\* the edges inserted and not yet popped or cleared, oldest first.
EdgeSetCall(op, es, edge, ret, inserted) ==
    [op |-> op, es |-> es, edge |-> edge, ret |-> ret, inserted |-> inserted]

\* EdgeSet::new()
EdgeSetInit ==
    /\ IdleSession
    /\ unit = EdgeSetCall("new", EdgeSetNew, <<0, 0>>, FALSE, <<>>)

\* edge_set.add(edge)
UnitAdd(edge) ==
    /\ unit.op \in {"new", "add", "pop", "clear"}
    /\ unit' = EdgeSetCall("add", EdgeSetAdd(unit.es, edge), edge,
                            EdgeSetAddIsNew(unit.es, edge),
                            IF \E i \in 1..Len(unit.inserted) : unit.inserted[i] = edge
                            THEN unit.inserted
                            ELSE Append(unit.inserted, edge))
    /\ UNCHANGED session

\* edge_set.pop()
UnitPop ==
    /\ unit.op \in {"new", "add", "pop", "clear"}
    /\ unit' = EdgeSetCall("pop", EdgeSetPop(unit.es),
                            IF EdgeSetPopIsSome(unit.es)
                            THEN EdgeSetPopEdge(unit.es) ELSE <<0, 0>>,
                            EdgeSetPopIsSome(unit.es),
                            IF unit.inserted = <<>> THEN <<>>
                            ELSE SubSeq(unit.inserted, 1, Len(unit.inserted) - 1))
    /\ UNCHANGED session

\* edge_set.clear()
UnitClear ==
    /\ unit.op \in {"new", "add", "pop", "clear"}
    /\ unit' = EdgeSetCall("clear", EdgeSetClear(unit.es), <<0, 0>>, FALSE, <<>>)
    /\ UNCHANGED session

EdgeSetNext ==
    \/ \E edge \in UnitEdges : UnitAdd(edge)
    \/ UnitPop
    \/ UnitClear

SpecEdgeSet == EdgeSetInit /\ [][EdgeSetNext]_vars

(* ------------------------------------------------------------------ *)
(* solution.rs on its own: two Solutions built edge by edge              *)
(* ------------------------------------------------------------------ *)

\* sol1 = Solution::new(), sol2 = Solution::new()
SolutionInit ==
    /\ IdleSession
    /\ unit = [op |-> "solutions", sol1 |-> SolutionNew, sol2 |-> SolutionNew]

\* sol1.add_edge(edge)
AddEdge1(edge, pos) ==
    /\ unit.op = "solutions"
    /\ pos \in 1..(Len(unit.sol1) + 1)
    /\ unit' = [unit EXCEPT !.sol1 = add_edge(unit.sol1, edge, pos)]
    /\ UNCHANGED session

\* sol2.add_edge(edge)
AddEdge2(edge, pos) ==
    /\ unit.op = "solutions"
    /\ pos \in 1..(Len(unit.sol2) + 1)
    /\ unit' = [unit EXCEPT !.sol2 = add_edge(unit.sol2, edge, pos)]
    /\ UNCHANGED session

SolutionNext ==
    \/ \E edge \in UnitEdges, pos \in 1..(MaxUnitEdges + 1) : AddEdge1(edge, pos)
    \/ \E edge \in UnitEdges, pos \in 1..(MaxUnitEdges + 1) : AddEdge2(edge, pos)

SpecSolution == SolutionInit /\ [][SolutionNext]_vars

(* ------------------------------------------------------------------ *)
(* A session on the whole board, played towards the longest trails      *)
(* ------------------------------------------------------------------ *)

\* A target no add ever runs short of: one more than the cell's neighbours,
\* so can_add_node rejects for reasons of the graph and the trail only and
\* every add sequence legal under any target is legal under this one.
AmpleTarget == [c \in NodeIds |-> Cardinality(neighbors(c)) + 1]

\* A trail of 17 edges, after which no edge at its last cell is left.
LongTrail == <<0, 1, 2, 4, 0, 3, 1, 4, 3, 7, 4, 5, 7, 6, 4, 8, 5, 1>>

\* The cells of the trail that are added as LongTrail has them: all but the
\* last FreeMoves.
ScriptedCells == Len(LongTrail) - FreeMoves

\* PuzzleSession::new(AmpleTarget, 0)
LongInit ==
    /\ puzzle_valences = AmpleTarget
    /\ current_valences = puzzle_valences
    /\ edges = EdgeSetNew
    /\ current_trail = <<>>
    /\ found_solutions = {}
    /\ total_solutions = 0
    /\ last = NoResult("new")
    /\ pre_add = NoSnapshot
    /\ completions = {}
    /\ unit = NoUnit

\* PuzzleSession::add_node, with the cell LongTrail has next while the trail
\* is within its fixed beginning and any cell after that.
LongAdd ==
    \E node \in NodeIds :
        /\ Len(current_trail) < ScriptedCells => node = LongTrail[Len(current_trail) + 1]
        /\ AddNode(node)

LongNext ==
    \/ LongAdd
    \/ Undo
    \/ Reset

SpecLong == LongInit /\ [][LongNext]_vars

(* ------------------------------------------------------------------ *)
(* puzzle/transforms.rs: the 8 symmetries applied to a valence vector    *)
(* ------------------------------------------------------------------ *)

\* Symmetry::all(): the 8 symmetries in order.
SymmetryAll ==
    <<"Identity", "Rot90", "Rot180", "Rot270",
      "FlipHorizontal", "FlipVertical", "FlipMainDiag", "FlipAntiDiag">>

Symmetries == {SymmetryAll[i] : i \in 1..Len(SymmetryAll)}

\* The array a symmetry builds: entry j is arr[t[j + 1]].
Transformed(arr, t) == [j \in NodeIds |-> arr[t[j + 1]]]

\* apply_symmetry whose anti-diagonal flip repeats the table of the half turn.
apply_symmetry_AntiDiagAsRot180(valences, symmetry) ==
    CASE symmetry = "Identity" -> valences
      [] symmetry = "Rot90" -> Transformed(valences, <<6, 3, 0, 7, 4, 1, 8, 5, 2>>)
      [] symmetry = "Rot180" -> Transformed(valences, <<8, 7, 6, 5, 4, 3, 2, 1, 0>>)
      [] symmetry = "Rot270" -> Transformed(valences, <<2, 5, 8, 1, 4, 7, 0, 3, 6>>)
      [] symmetry = "FlipHorizontal" -> Transformed(valences, <<2, 1, 0, 5, 4, 3, 8, 7, 6>>)
      [] symmetry = "FlipVertical" -> Transformed(valences, <<6, 7, 8, 3, 4, 5, 0, 1, 2>>)
      [] symmetry = "FlipMainDiag" -> Transformed(valences, <<0, 3, 6, 1, 4, 7, 2, 5, 8>>)
      [] symmetry = "FlipAntiDiag" -> Transformed(valences, <<8, 7, 6, 5, 4, 3, 2, 1, 0>>)

\* apply_symmetry whose quarter turn has its last two entries the wrong way
\* round.
apply_symmetry_Rot90Slip(valences, symmetry) ==
    CASE symmetry = "Identity" -> valences
      [] symmetry = "Rot90" -> Transformed(valences, <<6, 3, 0, 7, 4, 1, 8, 2, 5>>)
      [] symmetry = "Rot180" -> Transformed(valences, <<8, 7, 6, 5, 4, 3, 2, 1, 0>>)
      [] symmetry = "Rot270" -> Transformed(valences, <<2, 5, 8, 1, 4, 7, 0, 3, 6>>)
      [] symmetry = "FlipHorizontal" -> Transformed(valences, <<2, 1, 0, 5, 4, 3, 8, 7, 6>>)
      [] symmetry = "FlipVertical" -> Transformed(valences, <<6, 7, 8, 3, 4, 5, 0, 1, 2>>)
      [] symmetry = "FlipMainDiag" -> Transformed(valences, <<0, 3, 6, 1, 4, 7, 2, 5, 8>>)
      [] symmetry = "FlipAntiDiag" -> Transformed(valences, <<8, 5, 2, 7, 4, 1, 6, 3, 0>>)

\* apply_symmetry: the match on the symmetry, one index table per arm.
apply_symmetry(valences, symmetry) ==
    CASE symmetry = "Identity" -> valences
      [] symmetry = "Rot90" -> Transformed(valences, <<6, 3, 0, 7, 4, 1, 8, 5, 2>>)
      [] symmetry = "Rot180" -> Transformed(valences, <<8, 7, 6, 5, 4, 3, 2, 1, 0>>)
      [] symmetry = "Rot270" -> Transformed(valences, <<2, 5, 8, 1, 4, 7, 0, 3, 6>>)
      [] symmetry = "FlipHorizontal" -> Transformed(valences, <<2, 1, 0, 5, 4, 3, 8, 7, 6>>)
      [] symmetry = "FlipVertical" -> Transformed(valences, <<6, 7, 8, 3, 4, 5, 0, 1, 2>>)
      [] symmetry = "FlipMainDiag" -> Transformed(valences, <<0, 3, 6, 1, 4, 7, 2, 5, 8>>)
      [] symmetry = "FlipAntiDiag" -> Transformed(valences, <<8, 5, 2, 7, 4, 1, 6, 3, 0>>)

\* Vectors of 9 pairwise distinct entries: 1..9 as in the tests, read with a
\* stride and an offset, times a factor.
DistinctVectors ==
    {[c \in NodeIds |-> (((c * k + s) % 9) + 1) * m] :
        k \in {1, 2, 4, 5, 7, 8}, s \in NodeIds, m \in 1..MaxScale}

\* let valences = Valences::new(..)
SymmetryInit ==
    /\ IdleSession
    /\ unit \in [op : {"vector"}, valences : DistinctVectors]

\* for symmetry in Symmetry::all() { apply_symmetry(&valences, symmetry) }
ApplyAll ==
    /\ unit.op = "vector"
    /\ unit' = [op |-> "images", valences |-> unit.valences,
                results |-> [i \in 1..Len(SymmetryAll) |->
                                apply_symmetry(unit.valences, SymmetryAll[i])]]
    /\ UNCHANGED session

\* apply_symmetry(&valences, symmetry) for one symmetry
ApplyOne(symmetry) ==
    /\ unit.op = "vector"
    /\ unit' = [op |-> "image", valences |-> unit.valences, symmetry |-> symmetry,
                result |-> apply_symmetry(unit.valences, symmetry)]
    /\ UNCHANGED session

SymmetryNext ==
    \/ ApplyAll
    \/ \E symmetry \in Symmetries : ApplyOne(symmetry)

SpecSymmetry == SymmetryInit /\ [][SymmetryNext]_vars

(* ------------------------------------------------------------------ *)
(* A base puzzle played, then its transformed variant played the same    *)
(* way: the trail of the base session is added, cell by cell under the   *)
(* symmetry, to a session on apply_symmetry(base, symmetry)              *)
(* ------------------------------------------------------------------ *)

\* The vector of the transforms tests, whose entries tell the cells apart.
Probe == [c \in NodeIds |-> c + 1]

\* Where a symmetry puts the value of cell c: the cell of the transformed
\* vector that holds what cell c of the given one held.
ImageCell(symmetry, c) ==
    CHOOSE j \in NodeIds : apply_symmetry(Probe, symmetry)[j] = Probe[c]

\* The add a base session rejected last, if that is how it was left.
NoRejected == [some |-> FALSE, node |-> 0, err |-> "None"]

\* PuzzleSession::new(base, 1) for a base configuration, and the symmetry the
\* variant will be made with.
ReplayInit ==
    /\ puzzle_valences \in NewPuzzleTargets
    /\ current_valences = puzzle_valences
    /\ edges = EdgeSetNew
    /\ current_trail = <<>>
    /\ found_solutions = {}
    /\ total_solutions = 1
    /\ last = NoResult("new")
    /\ pre_add = NoSnapshot
    /\ completions = {}
    /\ unit \in [op : {"base"}, symmetry : Symmetries]

\* session.add_node(node) on the base puzzle
BaseAdd(node) ==
    /\ unit.op = "base"
    /\ AddNode(node)

\* PuzzleSession::new(apply_symmetry(base, symmetry), 1): the variant, to be
\* played as the base was; what the base session came to is kept aside.
StartVariant ==
    /\ unit.op = "base"
    /\ current_trail # <<>>
    /\ unit' = [op |-> "variant", symmetry |-> unit.symmetry,
                base |-> puzzle_valences,
                trail |-> current_trail,
                valences |-> current_valences,
                completed |-> is_complete(current_valences),
                rejected |-> IF last.op = "add" /\ last.kind = "Invalid"
                             THEN [some |-> TRUE, node |-> last.node, err |-> last.err]
                             ELSE NoRejected]
    /\ puzzle_valences' = apply_symmetry(puzzle_valences, unit.symmetry)
    /\ current_valences' = puzzle_valences'
    /\ edges' = EdgeSetNew
    /\ current_trail' = <<>>
    /\ found_solutions' = {}
    /\ total_solutions' = total_solutions
    /\ last' = NoResult("new")
    /\ pre_add' = NoSnapshot
    /\ completions' = {}

\* session.add_node on the variant, with the image of the next cell of the
\* base trail
VariantAdd ==
    /\ unit.op = "variant"
    /\ Len(current_trail) < Len(unit.trail)
    /\ ~(last.op = "add" /\ last.kind = "Invalid")
    /\ AddNode(ImageCell(unit.symmetry, unit.trail[Len(current_trail) + 1]))

\* session.add_node on the variant, with the image of the cell the base
\* session rejected after its trail
VariantRejected ==
    /\ unit.op = "variant"
    /\ Len(current_trail) = Len(unit.trail)
    /\ unit.rejected.some
    /\ AddNode(ImageCell(unit.symmetry, unit.rejected.node))

ReplayNext ==
    \/ \E node \in NodeIds : BaseAdd(node)
    \/ StartVariant
    \/ VariantAdd
    \/ VariantRejected

SpecReplay == ReplayInit /\ [][ReplayNext]_vars

(* ------------------------------------------------------------------ *)
(* puzzle/mod.rs: PuzzleLibrary                                          *)
(* ------------------------------------------------------------------ *)

\* A corpus is a sequence of lines, a line the sequence of the fields that
\* line.split(',') gives, each field the text left by trim().  An empty or
\* blank line splits into one empty field.

\* s.trim().parse::<usize>(): the texts that parse, with their values.
ParsedUsize == ("0" :> 0) @@ ("1" :> 1) @@ ("2" :> 2) @@ ("3" :> 3)

\* parse::<usize>() is Ok
ParseIsOk(field) == field \in DOMAIN ParsedUsize

\* line.trim().is_empty()
LineIsEmpty(line) == Len(line) = 1 /\ line[1] = ""

\* HashMap::new()
NoPuzzles == [c \in {} |-> <<>>]

\* puzzles_by_complexity.entry(complexity).or_default().push(BasePuzzle { valences })
PushPuzzle(map, complexity, valences) ==
    IF complexity \in DOMAIN map
    THEN [map EXCEPT ![complexity] = Append(@, valences)]
    ELSE [c \in DOMAIN map \cup {complexity} |->
            IF c = complexity THEN <<valences>> ELSE map[c]]

\* The Err of from_csv, with the line number it names.
LoadErr(reason, line) == [ok |-> FALSE, reason |-> reason, line |-> line, library |-> NoPuzzles]

\* from_csv that numbers the lines as enumerate() does, from 0.
RECURSIVE FromCsvFrom_ZeroBased(_, _, _)
FromCsvFrom_ZeroBased(csv_data, i, map) ==
    IF i > Len(csv_data)
    THEN IF DOMAIN map = {}
         THEN LoadErr("No puzzles loaded from CSV", 0)
         ELSE [ok |-> TRUE, reason |-> "None", line |-> 0, library |-> map]
    ELSE LET line == csv_data[i]
             line_num == i - 1
         IN IF LineIsEmpty(line)
            THEN FromCsvFrom_ZeroBased(csv_data, i + 1, map)
            ELSE IF \E k \in 1..Len(line) : ~ParseIsOk(line[k])
            THEN LoadErr("Parse error", line_num)
            ELSE IF Len(line) # 10
            THEN LoadErr("values, expected 10", line_num)
            ELSE FromCsvFrom_ZeroBased(csv_data, i + 1,
                     PushPuzzle(map, ParsedUsize[line[10]],
                                [c \in NodeIds |-> ParsedUsize[line[c + 1]]]))

\* PuzzleLibrary::from_csv from line i on (i counts from 1, line_num from 0 as
\* enumerate() does), with the map built so far.
RECURSIVE FromCsvFrom(_, _, _)
FromCsvFrom(csv_data, i, map) ==
    IF i > Len(csv_data)
    THEN IF DOMAIN map = {}
         THEN LoadErr("No puzzles loaded from CSV", 0)
         ELSE [ok |-> TRUE, reason |-> "None", line |-> 0, library |-> map]
    ELSE LET line == csv_data[i]
             line_num == i - 1
         IN IF LineIsEmpty(line)
            THEN FromCsvFrom(csv_data, i + 1, map)
            ELSE IF \E k \in 1..Len(line) : ~ParseIsOk(line[k])
            THEN LoadErr("Parse error", line_num + 1)
            ELSE IF Len(line) # 10
            THEN LoadErr("values, expected 10", line_num + 1)
            ELSE FromCsvFrom(csv_data, i + 1,
                     PushPuzzle(map, ParsedUsize[line[10]],
                                [c \in NodeIds |-> ParsedUsize[line[c + 1]]]))

\* PuzzleLibrary::from_csv
from_csv(csv_data) == FromCsvFrom(csv_data, 1, NoPuzzles)

\* puzzle_count that counts the complexities instead of the puzzles of one.
puzzle_count_Keys(library, complexity) ==
    IF complexity \in DOMAIN library THEN Cardinality(DOMAIN library) ELSE 0

\* PuzzleLibrary::puzzle_count
puzzle_count(library, complexity) ==
    IF complexity \in DOMAIN library THEN Len(library[complexity]) ELSE 0

\* sort_unstable on a Vec of distinct numbers, given as the set of them.
RECURSIVE SortUnstable(_)
SortUnstable(s) ==
    IF s = {}
    THEN <<>>
    ELSE LET m == CHOOSE x \in s : \A y \in s : x <= y
         IN <<m>> \o SortUnstable(s \ {m})

\* PuzzleLibrary::available_complexities: the keys, then sort_unstable.
available_complexities(library) == SortUnstable(DOMAIN library)

\* What a lookup gives: None, Some(config) (with the base index, for
\* untried_puzzle), or the panic of the division ("attempt to divide by zero").
NoPuzzle ==
    [kind |-> "None", valences |-> zeros, complexity |-> 0,
     total_solutions |-> 0, index |-> 0]

\* PuzzleLibrary::solution_count_for_puzzle: complexity / num_edges, which
\* panics when num_edges is 0.
solution_count_for_puzzle(valences, complexity) ==
    LET num_edges == total(valences) \div 2
    IN IF num_edges = 0
       THEN [panicked |-> TRUE, value |-> 0]
       ELSE [panicked |-> FALSE, value |-> complexity \div num_edges]

\* The tail both lookups share: the transform applied to the chosen base, the
\* total computed, the PuzzleConfig built.  index counts from 0.
Configure(library, complexity, index, transform) ==
    LET valences == apply_symmetry(library[complexity][index + 1], transform)
        solution_count == solution_count_for_puzzle(valences, complexity)
    IN IF solution_count.panicked
       THEN [NoPuzzle EXCEPT !.kind = "Panic"]
       ELSE [kind |-> "Some", valences |-> valences, complexity |-> complexity,
             total_solutions |-> solution_count.value, index |-> index]

\* PuzzleLibrary::random_puzzle, choice being the index that
\* base_puzzles.choose(&mut rng()) takes and transform what Symmetry::random()
\* gives.  The index is not part of what it returns.
random_puzzle(library, complexity, choice, transform) ==
    IF complexity \notin DOMAIN library
    THEN NoPuzzle
    ELSE IF library[complexity] = <<>>
    THEN NoPuzzle
    ELSE [Configure(library, complexity, choice, transform) EXCEPT !.index = 0]

\* The indices of untried_puzzle's untried Vec: those of base_puzzles, in
\* order, that tried_indices does not contain.
RECURSIVE UntriedFrom(_, _, _)
UntriedFrom(len, tried_indices, idx) ==
    IF idx >= len
    THEN <<>>
    ELSE IF \E k \in 1..Len(tried_indices) : tried_indices[k] = idx
    THEN UntriedFrom(len, tried_indices, idx + 1)
    ELSE <<idx>> \o UntriedFrom(len, tried_indices, idx + 1)

\* untried_puzzle that does not look at tried_indices.
untried_puzzle_IgnoresTried(library, complexity, tried_indices, choice, transform) ==
    IF complexity \notin DOMAIN library
    THEN NoPuzzle
    ELSE Configure(library, complexity,
                   UntriedFrom(Len(library[complexity]), <<>>, 0)[choice + 1], transform)

\* PuzzleLibrary::untried_puzzle, choice being the position in untried that
\* untried.choose(&mut rng()) takes.
untried_puzzle(library, complexity, tried_indices, choice, transform) ==
    IF complexity \notin DOMAIN library
    THEN NoPuzzle
    ELSE LET untried == UntriedFrom(Len(library[complexity]), tried_indices, 0)
         IN IF untried = <<>>
            THEN NoPuzzle
            ELSE Configure(library, complexity, untried[choice + 1], transform)

(* ------------------------------------------------------------------ *)
(* puzzle/mod.rs on its own: a corpus loaded and the library counted     *)
(* ------------------------------------------------------------------ *)

\* Lines of a corpus: three records of TEST_CSV, the malformed lines of
\* test_invalid_csv, a line of 11 values, a line with a trailing comma and an
\* empty line.
CorpusLines ==
    { <<"0", "0", "0", "0", "0", "0", "0", "1", "1", "1">>,
      <<"0", "0", "0", "0", "0", "1", "0", "1", "0", "1">>,
      <<"0", "0", "0", "0", "0", "0", "1", "2", "1", "2">>,
      <<"0", "0", "0", "0", "0", "1">>,
      <<"0", "0", "0", "x", "0", "0", "0", "1", "1", "1">>,
      <<"0", "0", "0", "0", "0", "0", "0", "1", "1", "1", "1">>,
      <<"0", "0", "0", "0", "0", "0", "0", "1", "1", "1", "">>,
      <<"">> }

\* The corpora given to from_csv: up to MaxLines lines.
Corpora == UNION {[1..n -> CorpusLines] : n \in 0..MaxLines}

\* The complexities asked for: those of the lines and two that are absent.
Complexities == 0..3

\* let csv_data = ..
LoadInit ==
    /\ IdleSession
    /\ unit \in [op : {"corpus"}, csv_data : Corpora]

\* PuzzleLibrary::from_csv(csv_data)
Load ==
    /\ unit.op = "corpus"
    /\ unit' = [op |-> "from_csv", csv_data |-> unit.csv_data,
                result |-> from_csv(unit.csv_data)]
    /\ UNCHANGED session

\* library.puzzle_count(complexity)
PuzzleCount(complexity) ==
    /\ unit.op \in {"from_csv", "puzzle_count", "available_complexities"}
    /\ unit.result.ok
    /\ unit' = [op |-> "puzzle_count", csv_data |-> unit.csv_data,
                result |-> unit.result, complexity |-> complexity,
                count |-> puzzle_count(unit.result.library, complexity)]
    /\ UNCHANGED session

\* library.available_complexities()
AvailableComplexities ==
    /\ unit.op \in {"from_csv", "puzzle_count", "available_complexities"}
    /\ unit.result.ok
    /\ unit' = [op |-> "available_complexities", csv_data |-> unit.csv_data,
                result |-> unit.result,
                complexities |-> available_complexities(unit.result.library)]
    /\ UNCHANGED session

LoadNext ==
    \/ Load
    \/ \E complexity \in Complexities : PuzzleCount(complexity)
    \/ AvailableComplexities

SpecLoad == LoadInit /\ [][LoadNext]_vars

(* ------------------------------------------------------------------ *)
(* puzzle/mod.rs on its own: puzzles looked up in a loaded library       *)
(* ------------------------------------------------------------------ *)

\* TEST_CSV: three records of complexity 1, two of complexity 2.
TestCsv ==
    << <<"0", "0", "0", "0", "0", "0", "0", "1", "1", "1">>,
       <<"0", "0", "0", "0", "0", "1", "0", "1", "0", "1">>,
       <<"0", "0", "0", "0", "1", "0", "0", "0", "1", "1">>,
       <<"0", "0", "0", "0", "0", "0", "1", "2", "1", "2">>,
       <<"0", "0", "0", "0", "0", "1", "0", "1", "2", "2">> >>

\* A corpus from_csv loads as well: a record of no valence at all and one of
\* TEST_CSV at complexity 1, a record of a single valence at complexity 2.
SparseCsv ==
    << <<"0", "0", "0", "0", "0", "0", "0", "0", "0", "1">>,
       <<"0", "0", "0", "0", "0", "0", "0", "1", "1", "1">>,
       <<"0", "0", "0", "0", "0", "0", "0", "0", "1", "2">> >>

\* Two records of two edges each at complexity 3, where the division truncates.
OddCsv ==
    << <<"0", "0", "0", "0", "0", "0", "1", "2", "1", "3">>,
       <<"0", "0", "0", "0", "0", "1", "0", "1", "2", "3">> >>

\* The libraries looked into.
Libraries == {from_csv(csv_data).library : csv_data \in {TestCsv, SparseCsv, OddCsv}}

\* The tried_indices a tour starts with: none, some, all of three, one that no
\* record has.
StartIndices == {<<>>, <<0>>, <<1, 0>>, <<0, 1, 2>>, <<7>>}

\* The choices choose() has among n elements (one, unused, when there is none).
Choices(n) == 0..(Max(n, 1) - 1)

\* let library = PuzzleLibrary::from_csv(..).unwrap()
LibraryInit ==
    /\ IdleSession
    /\ unit \in [op : {"from_csv"}, library : Libraries, complexity : {0},
                 start : {<<>>}, tried : {<<>>}, found : {0}, result : {NoPuzzle}]

\* let mut tried = vec![..]
StartTour(complexity, tried_indices) ==
    /\ unit.op = "from_csv"
    /\ unit' = [unit EXCEPT !.op = "tour", !.complexity = complexity,
                            !.start = tried_indices, !.tried = tried_indices]
    /\ UNCHANGED session

\* library.untried_puzzle(complexity, &tried), and tried.push(idx) on Some;
\* the panic ends the process.
UntriedPuzzle ==
    /\ unit.op \in {"tour", "untried_puzzle"}
    /\ unit.result.kind # "Panic"
    /\ \E choice \in Choices(Len(UntriedFrom(puzzle_count(unit.library, unit.complexity),
                                             unit.tried, 0))),
          transform \in Symmetries :
          \E r \in {untried_puzzle(unit.library, unit.complexity, unit.tried,
                                   choice, transform)} :
             unit' = [unit EXCEPT !.op = "untried_puzzle",
                                  !.result = r,
                                  !.tried = IF r.kind = "Some" THEN Append(@, r.index) ELSE @,
                                  !.found = IF r.kind = "Some" THEN @ + 1 ELSE @]
    /\ UNCHANGED session

\* library.random_puzzle(complexity)
RandomPuzzle(complexity) ==
    /\ unit.op \in {"from_csv", "random_puzzle"}
    /\ unit.result.kind # "Panic"
    /\ \E choice \in Choices(puzzle_count(unit.library, complexity)),
          transform \in Symmetries :
          unit' = [unit EXCEPT !.op = "random_puzzle",
                               !.complexity = complexity,
                               !.result = random_puzzle(unit.library, complexity,
                                                        choice, transform)]
    /\ UNCHANGED session

LibraryNext ==
    \/ \E complexity \in Complexities, tried_indices \in StartIndices :
          StartTour(complexity, tried_indices)
    \/ UntriedPuzzle
    \/ \E complexity \in Complexities : RandomPuzzle(complexity)

SpecLibrary == LibraryInit /\ [][LibraryNext]_vars

(* ------------------------------------------------------------------ *)
(* progression.rs: ProgressionTracker                                    *)
(* ------------------------------------------------------------------ *)

\* LEVEL_TO_COMPLEXITY (indexed from 1 here, from 0 in the source)
LEVEL_TO_COMPLEXITY ==
    << 1, 2, 3, 4, 5, 6, 7, 8, 9, 10, 11, 12, 13, 14, 15, 16, 17, 18, 20, 21,
       22, 24, 25, 26, 27, 28, 30, 32, 33, 34, 35, 36, 39, 40, 42, 44, 45, 48,
       49, 50, 52, 54, 55, 56, 60, 63, 64, 65, 66, 70, 72, 75, 77, 78, 80, 81,
       84, 88, 90, 91, 96, 98, 99, 100, 104, 105, 108, 110, 112, 117, 120, 121,
       126, 128, 130, 132, 135, 136, 140, 143, 144, 147, 150, 152, 153, 154, 156,
       160, 161, 162, 165, 168, 169, 170, 171, 175, 176, 180, 182, 184, 187, 189,
       190, 192, 195, 196, 198, 200, 204, 207, 208, 209, 210, 216, 220, 221, 224,
       225, 228, 230, 231, 232, 234, 240, 242, 248, 250, 252, 253, 260, 261, 264,
       270, 279, 280, 285, 286, 288, 294, 297, 299, 300, 304, 306, 308, 310, 312,
       319, 320, 322, 325, 330, 333, 336, 338, 342, 348, 350, 351, 352, 360, 363,
       364, 368, 370, 372, 374, 376, 378, 384, 390, 392, 418, 420, 423, 429, 430,
       432, 440, 450, 470, 494, 500, 504, 517, 532, 533, 540, 550, 570, 576, 583,
       594, 600, 624, 630, 650, 663, 671, 672, 676, 684, 696, 700, 708, 728, 732,
       740, 792, 810, 832, 852, 858, 880, 924, 936, 960 >>

MAX_LEVEL == 217

\* ProgressionTracker::default
TrackerDefault == [current_level |-> 1, completed_at_level |-> 0]

\* The trackers the tests build as struct literals.
TrackerLiterals ==
    {[current_level |-> l, completed_at_level |-> 0] : l \in {109, 216, 217}}

\* current_complexity that indexes with the level itself.
current_complexity_NoMinusOne(tracker) ==
    IF tracker.current_level + 1 \in 1..Len(LEVEL_TO_COMPLEXITY)
    THEN [panicked |-> FALSE, value |-> LEVEL_TO_COMPLEXITY[tracker.current_level + 1]]
    ELSE [panicked |-> TRUE, value |-> 0]

\* ProgressionTracker::current_complexity: LEVEL_TO_COMPLEXITY[current_level - 1],
\* which panics when the index is out of bounds.
current_complexity(tracker) ==
    IF tracker.current_level \in 1..Len(LEVEL_TO_COMPLEXITY)
    THEN [panicked |-> FALSE, value |-> LEVEL_TO_COMPLEXITY[tracker.current_level]]
    ELSE [panicked |-> TRUE, value |-> 0]

\* advance_level that wraps one level late.
advance_level_WrapsLate(tracker) ==
    [current_level |-> IF tracker.current_level > MAX_LEVEL
                       THEN 1
                       ELSE tracker.current_level + 1,
     completed_at_level |-> 0]

\* ProgressionTracker::advance_level
advance_level(tracker) ==
    [current_level |-> IF tracker.current_level >= MAX_LEVEL
                       THEN 1
                       ELSE tracker.current_level + 1,
     completed_at_level |-> 0]

\* A tracker as built: start is its level then, calls the advance_level calls
\* made since, counted modulo MAX_LEVEL; before is the level the last
\* advance_level left, complexity what current_complexity gave at the current
\* level and complexity_before what it gave at the level left (0: not asked).
ProgressionInit ==
    /\ IdleSession
    /\ \E tracker \in {TrackerDefault} \cup TrackerLiterals :
          unit = [op |-> "new", tracker |-> tracker, start |-> tracker.current_level,
                  calls |-> 0, before |-> 0, complexity |-> 0, complexity_before |-> 0]

\* tracker.advance_level()
AdvanceLevel ==
    /\ unit.op \in {"new", "advance_level", "current_complexity"}
    /\ unit' = [unit EXCEPT !.op = "advance_level",
                            !.tracker = advance_level(unit.tracker),
                            !.calls = (@ + 1) % MAX_LEVEL,
                            !.before = unit.tracker.current_level,
                            !.complexity = 0,
                            !.complexity_before = unit.complexity]
    /\ UNCHANGED session

\* tracker.current_complexity(); the panic ends the process.
CurrentComplexity ==
    /\ unit.op \in {"new", "advance_level", "current_complexity"}
    /\ \E r \in {current_complexity(unit.tracker)} :
          unit' = [unit EXCEPT !.op = IF r.panicked THEN "panic" ELSE "current_complexity",
                               !.complexity = r.value]
    /\ UNCHANGED session

ProgressionNext ==
    \/ AdvanceLevel
    \/ CurrentComplexity

SpecProgression == ProgressionInit /\ [][ProgressionNext]_vars

(* ------------------------------------------------------------------ *)
(* visual/setup/puzzle.rs and visual/interactions/pointer.rs: the game   *)
(* ------------------------------------------------------------------ *)

\* A corpus from_csv loads as well: a record of two edges and one of a single
\* edge at complexity 1, a record of three edges at complexity 2.
ShallowCsv ==
    << <<"0", "0", "0", "0", "0", "0", "1", "2", "1", "1">>,
       <<"0", "0", "0", "0", "0", "0", "0", "1", "1", "1">>,
       <<"0", "0", "0", "0", "0", "1", "2", "2", "1", "2">> >>

\* The libraries the game is started with.
GameLibraries == {from_csv(csv_data).library : csv_data \in {TestCsv, ShallowCsv}}

\* Option<NodeId>::None, among the cells 0..8.
NoNode == 9

\* FleeMode::default and FleeMode::deactivate (time_active is 0.0 in both)
FleeOff == [active |-> FALSE, trigger_node |-> NoNode]

\* FleeMode::activate
FleeOn(node) == [active |-> TRUE, trigger_node |-> node]

\* PuzzleSession::new(valences, total_sol), inserted as the session resource.
InsertSession(valences, total_sol) ==
    /\ puzzle_valences' = valences
    /\ current_valences' = valences
    /\ edges' = EdgeSetNew
    /\ current_trail' = <<>>
    /\ found_solutions' = {}
    /\ total_solutions' = total_sol
    /\ last' = [NoResult("new") EXCEPT !.valences = valences, !.total = total_sol]
    /\ pre_add' = NoSnapshot
    /\ completions' = {}

\* setup_puzzle_library and setup_puzzle: the default tracker, a random puzzle
\* of its complexity, the session made of it.  config_complexity remembers
\* the complexity of the configuration the active session was made of, and
\* changed is what session.is_changed() gives check_level_progression.
GameInit ==
    \E library \in GameLibraries, transform \in Symmetries :
    \E choice \in Choices(puzzle_count(library, current_complexity(TrackerDefault).value)) :
    \E config \in {random_puzzle(library, current_complexity(TrackerDefault).value,
                                 choice, transform)} :
       /\ config.kind = "Some"
       /\ puzzle_valences = config.valences
       /\ current_valences = config.valences
       /\ edges = EdgeSetNew
       /\ current_trail = <<>>
       /\ found_solutions = {}
       /\ total_solutions = config.total_solutions
       /\ last = [NoResult("new") EXCEPT !.valences = config.valences,
                                         !.total = config.total_solutions]
       /\ pre_add = NoSnapshot
       /\ completions = {}
       /\ unit = [op |-> "setup_puzzle", library |-> library, tracker |-> TrackerDefault,
                  config_complexity |-> config.complexity, changed |-> TRUE,
                  is_dragging |-> FALSE, flee_mode |-> FleeOff,
                  advanced |-> FALSE, replaced |-> FALSE]

\* session.add_node(node) in handle_pointer_input, r being what
\* GameState::add_node returned, and the session.reset() that follows a
\* Complete result.
PointerAddNode(node, r) ==
    LET solution == from_edge_set(r.edges)
        is_new == ~is_solution_known(solution)
        complete == r.kind = "PuzzleComplete"
    IN
    /\ current_valences' = IF complete THEN puzzle_valences ELSE r.current_valences
    /\ edges' = IF complete THEN EdgeSetClear(r.edges) ELSE r.edges
    /\ current_trail' = IF complete THEN <<>> ELSE r.current_trail
    /\ found_solutions' =
           IF complete /\ is_new THEN found_solutions \cup {solution} ELSE found_solutions
    /\ last' = [NoResult("add") EXCEPT
                    !.node = node,
                    !.kind = IF complete THEN "Complete" ELSE r.kind,
                    !.err = r.err,
                    !.is_new = complete /\ is_new,
                    !.solution = IF complete THEN solution ELSE {}]
    /\ pre_add' = NoSnapshot
    /\ completions' = IF complete THEN completions \cup {r.edges.edges} ELSE completions
    /\ UNCHANGED <<puzzle_valences, total_solutions>>

\* AfterAdd that keeps the drag going when the add completes the puzzle.
AfterAdd_KeepsDragging(op, node, r) ==
    [unit EXCEPT
        !.op = op,
        !.changed = TRUE,
        !.advanced = FALSE,
        !.replaced = FALSE,
        !.is_dragging =
            IF r.kind = "EdgeAdded" /\ op = "Down" THEN TRUE
            ELSE IF r.kind = "FirstNode" /\ op = "Down" THEN TRUE
            ELSE @,
        !.flee_mode =
            IF r.kind = "Invalid" THEN FleeOn(node)
            ELSE IF r.kind = "FirstNode" /\ op = "Move" THEN @
            ELSE FleeOff]

\* The handler's own resources after session.add_node(node) returned r, on
\* Down (FirstNode counts) and on Move (it does not).
AfterAdd(op, node, r) ==
    [unit EXCEPT
        !.op = op,
        !.changed = TRUE,
        !.advanced = FALSE,
        !.replaced = FALSE,
        !.is_dragging =
            IF r.kind = "PuzzleComplete" THEN FALSE
            ELSE IF r.kind = "EdgeAdded" /\ op = "Down" THEN TRUE
            ELSE IF r.kind = "FirstNode" /\ op = "Down" THEN TRUE
            ELSE @,
        !.flee_mode =
            IF r.kind = "Invalid" THEN FleeOn(node)
            ELSE IF r.kind = "FirstNode" /\ op = "Move" THEN @
            ELSE FleeOff]

\* An event that changes nothing the game keeps (only the hover state): no
\* node in reach, or a Move outside a drag.
NoEffect(op) ==
    /\ unit' = [unit EXCEPT !.op = op, !.advanced = FALSE, !.replaced = FALSE]
    /\ UNCHANGED session

\* handle_pointer_input, an event without a world position: skipped.
PointerSkipped ==
    /\ unit.op # "panic"
    /\ NoEffect("skipped")

\* handle_pointer_input, a Down event; hit is the first node within reach of
\* the pointer, if any.
PointerDown(hit) ==
    /\ unit.op # "panic"
    /\ IF hit = NoNode
       THEN NoEffect("Down, no node")
       ELSE \E r \in {GameAddNode(hit)} :
               /\ PointerAddNode(hit, r)
               /\ unit' = AfterAdd("Down", hit, r)

\* handle_pointer_input, a Move event; hit is the first node within reach
\* that is not the trail's last node, if any.
PointerMove(hit) ==
    /\ unit.op # "panic"
    /\ IF \/ ~unit.is_dragging
          \/ hit = NoNode
          \/ (current_trail # <<>> /\ hit = LastNode)
       THEN NoEffect("Move, no node")
       ELSE \E r \in {GameAddNode(hit)} :
               /\ PointerAddNode(hit, r)
               /\ unit' = AfterAdd("Move", hit, r)

\* handle_pointer_input, an Up event.
PointerUp ==
    /\ unit.op # "panic"
    /\ unit' = [unit EXCEPT !.op = "Up",
                            !.is_dragging = FALSE,
                            !.flee_mode = FleeOff,
                            !.changed = @ \/ Len(current_trail) > 0,
                            !.advanced = FALSE,
                            !.replaced = FALSE]
    /\ IF Len(current_trail) > 0
       THEN \E r \in {GameReset} :
               /\ current_valences' = r.current_valences
               /\ edges' = r.edges
               /\ current_trail' = r.current_trail
               /\ last' = [NoResult("reset") EXCEPT
                               !.edges_before = EdgeSetLen(edges),
                               !.found_before = Cardinality(found_solutions)]
               /\ pre_add' = NoSnapshot
               /\ UNCHANGED <<puzzle_valences, found_solutions, total_solutions,
                              completions>>
       ELSE UNCHANGED session

\* check_level_progression, once a frame after the frame's pointer events.
\* The panic of random_puzzle ends the process.  The game is followed up to
\* level MaxGameLevel.
CheckLevelProgression ==
    /\ unit.op # "panic"
    /\ IF ~unit.changed
       THEN NoEffect("check_level_progression")
       ELSE IF ~ProgressInfoIsComplete(progress)
       THEN /\ unit' = [unit EXCEPT !.op = "check_level_progression",
                                    !.changed = FALSE,
                                    !.advanced = FALSE,
                                    !.replaced = FALSE]
            /\ UNCHANGED session
       ELSE /\ unit.tracker.current_level < MaxGameLevel
            /\ \E tracker \in {advance_level(unit.tracker)}, transform \in Symmetries :
               \E complexity \in {current_complexity(tracker).value} :
               \E choice \in Choices(puzzle_count(unit.library, complexity)) :
               \E config \in {random_puzzle(unit.library, complexity, choice, transform)} :
                  IF config.kind = "Some"
                  THEN /\ InsertSession(config.valences, config.total_solutions)
                       /\ unit' = [unit EXCEPT !.op = "check_level_progression",
                                               !.tracker = tracker,
                                               !.config_complexity = config.complexity,
                                               !.changed = TRUE,
                                               !.advanced = TRUE,
                                               !.replaced = TRUE]
                  ELSE /\ unit' = [unit EXCEPT !.op = IF config.kind = "Panic"
                                                      THEN "panic"
                                                      ELSE "check_level_progression",
                                               !.tracker = tracker,
                                               !.changed = FALSE,
                                               !.advanced = TRUE,
                                               !.replaced = FALSE]
                       /\ UNCHANGED session

GameNext ==
    \/ PointerSkipped
    \/ \E hit \in NodeIds \cup {NoNode} : PointerDown(hit)
    \/ \E hit \in NodeIds \cup {NoNode} : PointerMove(hit)
    \/ PointerUp
    \/ CheckLevelProgression

SpecGame == GameInit /\ [][GameNext]_vars

(* ------------------------------------------------------------------ *)
(* Properties                                                           *)
(* ------------------------------------------------------------------ *)

\* The last call was add and it was rejected / was accepted.
Rejected == last.op = "add" /\ last.kind = "Invalid"
Accepted == last.op = "add" /\ last.kind \in {"FirstNode", "EdgeAdded", "Complete"}

\* C1: after any sequence of add, undo and reset calls, accepted or rejected,
\* the sum of the current valences is the sum of the target valences minus
\* twice the number of drawn edges.
C1_ValenceConservation ==
    total(current_valences) = total(puzzle_valences) - 2 * EdgeSetLen(edges)

\* Edges are drawn, and the last call was an undo that removed a cell or an
\* add that was rejected.
C1_Witness ==
    /\ EdgeSetLen(edges) >= 2
    /\ (last.op = "undo" /\ last.removed) \/ Rejected

\* C2: a rejected add leaves the current valences, the edge collection (set
\* and draw order), the trail and the target as they were.
C2_RejectedAddChangesNothing ==
    [][ (last'.op = "add" /\ last'.kind = "Invalid")
            => /\ current_valences' = current_valences
               /\ edges' = edges
               /\ current_trail' = current_trail
               /\ puzzle_valences' = puzzle_valences ]_vars

\* An add was rejected by the valence-1 rule while edges were drawn.
C2_Witness ==
    Rejected /\ last.err = "CannotAddValenceOne" /\ EdgeSetLen(edges) >= 1

\* The checks of can_add in the order of the spec; checks 2 to 5 are made
\* against the trail's last cell.
CheckFails(i, node) ==
    CASE i = 1 -> current_valences[node] = 0
      [] i = 2 -> node = current_trail[Len(current_trail)]
      [] i = 3 -> LET p == current_trail[Len(current_trail)] IN
                  ~( node # p
                     /\ Abs((node \div 3) - (p \div 3)) <= 1
                     /\ Abs((node % 3) - (p % 3)) <= 1 )
      [] i = 4 -> LET p == current_trail[Len(current_trail)] IN
                  <<Min(node, p), Max(node, p)>> \in edges.edges
      [] i = 5 -> current_valences[node] = 1 /\ total(current_valences) # 2

Reason(i) ==
    CASE i = 1 -> "NodeHasNoValence"
      [] i = 2 -> "SameNodeTwice"
      [] i = 3 -> "NodesNotAdjacent"
      [] i = 4 -> "EdgeAlreadyExists"
      [] i = 5 -> "CannotAddValenceOne"

FirstFailing(node) ==
    LET tried == IF current_trail = <<>> THEN {1} ELSE 1..5
        failing == {i \in tried : CheckFails(i, node)}
    IN IF failing = {}
       THEN "Ok"
       ELSE Reason(CHOOSE i \in failing : \A j \in failing : i <= j)

\* C3: can_add reports the first failing check in the order zero valence,
\* (empty trail: accept), repeated cell, not adjacent, edge already drawn,
\* premature valence-1 closure, and accepts exactly when none fails; a
\* zero-valence candidate is always NodeHasNoValence.
C3_ValidationPrecedence ==
    \A node \in NodeIds :
        /\ can_add_node(node) = FirstFailing(node)
        /\ current_valences[node] = 0 => can_add_node(node) = "NodeHasNoValence"

\* An add was rejected for a candidate that fails two checks at once: a
\* zero-valence cell that is also the last cell or not adjacent to it, or a
\* valence-1 cell, away from the last edge, whose edge is already drawn.
C3_Witness ==
    /\ Rejected
    /\ current_trail # <<>>
    /\ \/ /\ last.err = "NodeHasNoValence"
          /\ CheckFails(3, last.node)
          /\ \E n \in NodeIds : CheckFails(1, n) /\ CheckFails(4, n)
       \/ /\ last.err = "EdgeAlreadyExists"
          /\ CheckFails(5, last.node)

\* The candidate has valence 1, is not the trail's last cell, is adjacent to it
\* and the edge between them is not drawn.
ValenceOneCandidate(node) ==
    /\ current_trail # <<>>
    /\ current_valences[node] = 1
    /\ ~CheckFails(2, node)
    /\ ~CheckFails(3, node)
    /\ ~CheckFails(4, node)

\* C4: such a candidate is accepted if and only if the total remaining valence
\* is exactly 2, and is rejected as CannotAddValenceOne when it is above 2; the
\* rejection is what add then returns, with the state unchanged.
C4_ValenceOneClosure ==
    /\ \A node \in NodeIds :
          ValenceOneCandidate(node) =>
              \A r \in {GameAddNode(node)} :
                  /\ r.kind # "Invalid" <=> total(current_valences) = 2
                  /\ total(current_valences) > 2 =>
                        /\ r.kind = "Invalid"
                        /\ r.err = "CannotAddValenceOne"
                        /\ r.current_valences = current_valences
                        /\ r.edges = edges
                        /\ r.current_trail = current_trail
    /\ (Rejected /\ last.err = "CannotAddValenceOne") =>
          /\ ValenceOneCandidate(last.node)
          /\ total(current_valences) # 2

\* Both cases: a valence-1 cell was just added as the closing edge of a
\* puzzle of three or more edges, or a valence-1 candidate was just rejected.
C4_Witness ==
    \/ /\ last.op = "add" /\ last.kind = "Complete"
       /\ puzzle_valences[last.node] = 1
       /\ EdgeSetLen(edges) >= 3
    \/ /\ Rejected /\ last.err = "CannotAddValenceOne"
       /\ Len(current_trail) >= 2

\* C5: an undo made right after a successful add restores the current
\* valences, the edge collection (set and draw order) and the trail to their
\* values before that add.
C5_UndoInvertsAdd ==
    (last.op = "undo" /\ last.kind = "AfterAdd") =>
        /\ pre_add.valid
        /\ current_valences = pre_add.current_valences
        /\ edges = pre_add.edges
        /\ current_trail = pre_add.current_trail

\* An undo right after an add that drew the third edge or more.
C5_Witness ==
    /\ last.op = "undo" /\ last.kind = "AfterAdd" /\ last.removed
    /\ EdgeSetLen(edges) >= 2

\* C6: whenever can_add accepts a candidate on a non-empty trail, the candidate
\* and the trail's last cell both have current valence at least 1, and no
\* current valence has ever gone below 0.
C6_NoUnderflow ==
    /\ \A node \in NodeIds :
          (current_trail # <<>> /\ can_add_node(node) = "Ok") =>
              /\ current_valences[node] >= 1
              /\ current_valences[current_trail[Len(current_trail)]] >= 1
    /\ \A node \in NodeIds : current_valences[node] >= 0

\* An edge was just added from a cell whose valence it took to 0, to a cell
\* that keeps valence for the next edge.
C6_Witness ==
    /\ Accepted /\ last.kind # "FirstNode"
    /\ current_valences[current_trail[Len(current_trail) - 1]] = 0
    /\ current_valences[last.node] >= 1

\* C7: the edge collection holds max(0, trail length - 1) edges, the i-th edge
\* in draw order is the canonical edge between the i-th and (i+1)-th trail
\* cells, and a trail of two or more cells always has an edge to pop.
C7_TrailEdgeCorrespondence ==
    /\ Len(edges.draw_order) = Max(0, Len(current_trail) - 1)
    /\ Cardinality(edges.edges) = Max(0, Len(current_trail) - 1)
    /\ \A i \in 1..(Len(current_trail) - 1) :
          edges.draw_order[i] =
              << Min(current_trail[i], current_trail[i + 1]),
                 Max(current_trail[i], current_trail[i + 1]) >>
    /\ Len(current_trail) >= 2 => EdgeSetPopIsSome(edges)

\* A trail of four or more cells that revisits a cell, left by an undo.
C7_Witness ==
    /\ last.op = "undo" /\ last.removed
    /\ Len(current_trail) >= 4
    /\ \E i, j \in 1..Len(current_trail) : i # j /\ current_trail[i] = current_trail[j]

\* C8: a completing add reports is_new exactly when no earlier completion of
\* this session produced the same set of edges, whatever the draw order and
\* whatever undo or reset came between; a repeated edge set leaves the found
\* count unchanged (and a new one raises it by one).
C8_IsNewIffUnseenEdgeSet ==
    [][ (last'.op = "add" /\ last'.kind = "Complete")
            => /\ last'.is_new <=> edges'.edges \notin completions
               /\ ~last'.is_new =>
                     Cardinality(found_solutions') = Cardinality(found_solutions)
               /\ last'.is_new =>
                     Cardinality(found_solutions') = Cardinality(found_solutions) + 1 ]_vars

\* A completion reported as not new, with the edges drawn in an order different
\* from the sorted one, in a session that has found two solutions.
C8_Witness ==
    /\ last.op = "add" /\ last.kind = "Complete" /\ ~last.is_new
    /\ Cardinality(found_solutions) >= 2
    /\ edges.draw_order # SortedEdges(edges.edges)

\* C9: undo, reset and a rejected or non-completing add leave the found set as
\* it was; it never shrinks except by new_puzzle, which empties it, installs
\* a fresh state machine for the new target and sets the new expected total.
C9_FoundSetFrame ==
    [][ /\ last'.op \in {"undo", "reset"} => found_solutions' = found_solutions
        /\ (last'.op = "add" /\ last'.kind # "Complete")
              => found_solutions' = found_solutions
        /\ last'.op # "new_puzzle" => found_solutions \subseteq found_solutions'
        /\ last'.op = "new_puzzle"
              => /\ found_solutions' = {}
                 /\ puzzle_valences' = last'.valences
                 /\ current_valences' = last'.valences
                 /\ edges' = [edges |-> {}, draw_order |-> <<>>]
                 /\ current_trail' = <<>>
                 /\ total_solutions' = last'.total ]_vars

\* new_puzzle was called on a session that had found solutions and had edges
\* drawn.
C9_Witness ==
    /\ last.op = "new_puzzle"
    /\ last.found_before >= 1
    /\ last.edges_before >= 1
    /\ last.total # 0

\* C10: after reset the current valences equal the target, the edge collection
\* and the trail are empty and the target is unchanged: the state of a fresh
\* puzzle with the same target.
C10_ResetRestoresFresh ==
    [][ last'.op = "reset"
            => /\ puzzle_valences' = puzzle_valences
               /\ current_valences' = puzzle_valences
               /\ edges' = [edges |-> {}, draw_order |-> <<>>]
               /\ current_trail' = <<>> ]_vars

\* reset was called with three or more edges drawn.
C10_Witness ==
    last.op = "reset" /\ last.edges_before >= 3

\* C11: undo on a trail of 0 or 1 cells empties the trail, reports nothing
\* removed and leaves the current valences and the edge collection as they
\* were; undo on a longer trail removes the last trail cell and the most recent
\* edge, reports that cell and adds one to the current valence of exactly the
\* two endpoints of that edge.
C11_UndoFrame ==
    [][ last'.op = "undo"
            => IF Len(current_trail) <= 1
               THEN /\ current_trail' = <<>>
                    /\ ~last'.removed
                    /\ current_valences' = current_valences
                    /\ edges' = edges
               ELSE LET n == Len(current_trail)
                        m == Len(edges.draw_order)
                        popped == edges.draw_order[m]
                    IN /\ m >= 1
                       /\ current_trail' = SubSeq(current_trail, 1, n - 1)
                       /\ last'.removed
                       /\ last'.node = current_trail[n]
                       /\ edges'.draw_order = SubSeq(edges.draw_order, 1, m - 1)
                       /\ edges'.edges = edges.edges \ {popped}
                       /\ popped[1] # popped[2]
                       /\ current_valences' =
                              [c \in NodeIds |->
                                  IF c \in {popped[1], popped[2]}
                                  THEN current_valences[c] + 1
                                  ELSE current_valences[c]] ]_vars

\* undo found a trail of the one cell the call before had added and reported
\* nothing removed; or undo removed a cell and left two or more edges drawn.
C11_Witness ==
    /\ last.op = "undo"
    /\ \/ ~last.removed /\ last.kind = "AfterAdd" /\ EdgeSetLen(edges) = 0
       \/ last.removed /\ EdgeSetLen(edges) >= 2 /\ last.kind = "AfterAdd"

\* The cells next to c by rows and columns that share no edge of the draw
\* order with c and have valence left in cv.
ViableNeighbours(cv, draw_order, c) ==
    {d \in 0..8 :
        /\ d # c
        /\ Abs((c \div 3) - (d \div 3)) <= 1
        /\ Abs((c % 3) - (d % 3)) <= 1
        /\ ~\E i \in 1..Len(draw_order) : {draw_order[i][1], draw_order[i][2]} = {c, d}
        /\ cv[d] # 0}

\* Some cell with valence left has more of it than viable neighbours.
Starved(cv, draw_order) ==
    \E c \in 0..8 :
        /\ cv[c] # 0
        /\ cv[c] > Cardinality(ViableNeighbours(cv, draw_order, c))

\* C12: a successful add made in a state that is_degenerate reports leaves a
\* state that is_degenerate reports and does not complete the puzzle, so no
\* sequence of successful adds from a degenerate state reaches completion.
C12_DegenerateNeverCompletes ==
    [][ (is_degenerate /\ last'.op = "add" /\ last'.kind # "Invalid")
            => /\ is_degenerate'
               /\ last'.kind # "Complete"
               /\ ~is_complete(current_valences') ]_vars

\* An edge was added in a state with a starved cell, with valence to spare
\* elsewhere: four or more units were left before the add.
C12_Witness ==
    /\ last.op = "add" /\ last.kind = "EdgeAdded"
    /\ pre_add.valid
    /\ Starved(pre_add.current_valences, pre_add.edges.draw_order)
    /\ total(pre_add.current_valences) >= 4
    /\ is_degenerate

\* C13: is_degenerate is true exactly when some cell with non-zero current
\* valence has more valence than king-neighbours that share no drawn edge with
\* it and have non-zero current valence.
C13_DegenerateDefinition ==
    is_degenerate = Starved(current_valences, edges.draw_order)

\* A degenerate state in which every cell has enough neighbours with valence
\* left: the cell is starved only because edges to them are drawn.
C13_Witness ==
    /\ is_degenerate
    /\ ~Starved(current_valences, <<>>)
    /\ EdgeSetLen(edges) >= 1

\* Four cells of a block, each with valence 1.
StuckTarget == [c \in NodeIds |-> IF c \in Block THEN 1 ELSE 0]

\* C14: is_degenerate is not sufficient: in the puzzle of four valence-1 cells
\* in a block no state is degenerate and none is complete, whatever is added.
C14_NotDegenerateYetStuck ==
    puzzle_valences = StuckTarget
        => /\ ~is_degenerate
           /\ ~is_complete(current_valences)
           /\ last.kind # "Complete"
           /\ EdgeSetLen(edges) = 0

\* In that puzzle a first cell is on the trail and the add of a neighbour was
\* rejected by the valence-1 rule.
C14_Witness ==
    /\ puzzle_valences = StuckTarget
    /\ Len(current_trail) = 1
    /\ last.op = "add" /\ last.kind = "Invalid" /\ last.err = "CannotAddValenceOne"
    /\ ~is_degenerate

C18_EdgeCanonical ==
    (unit.op = "edges" /\ unit.a # unit.b)
        => /\ unit.ab = unit.ba
           /\ unit.ab[1] < unit.ab[2]
           /\ {unit.ab[1], unit.ab[2]} = {unit.a, unit.b}

\* Edge::new was given the larger id first.
C18_Witness ==
    unit.op = "edges" /\ unit.a > unit.b /\ unit.ab = <<unit.b, unit.a>>

\* Two cells differ and are at most one row and one column apart.
KingStep(a, b) ==
    /\ a # b
    /\ (a \div 3) - (b \div 3) \in {-1, 0, 1}
    /\ (a % 3) - (b % 3) \in {-1, 0, 1}

\* C20: for cells a, b in 0..8, are_adjacent(a, b) holds exactly when a and b
\* differ and are at most one row and one column apart; it is symmetric and
\* irreflexive; neighbors(a) is exactly the cells adjacent to a, 3 of them for
\* a corner, 5 for a side cell, 8 for the centre.
C20_KingsAdjacency ==
    unit.op = "graph"
        => /\ unit.ab = KingStep(unit.a, unit.b)
           /\ unit.ab = unit.ba
           /\ unit.a = unit.b => ~unit.ab
           /\ unit.neighbors = {d \in 0..8 : KingStep(unit.a, d)}
           /\ unit.a \in {0, 2, 6, 8} => Cardinality(unit.neighbors) = 3
           /\ unit.a \in {1, 3, 5, 7} => Cardinality(unit.neighbors) = 5
           /\ unit.a = 4 => Cardinality(unit.neighbors) = 8

\* The graph was asked about two cells one row apart with the larger row
\* first, which are adjacent; about a cell and itself; and about two cells of
\* one row that are two columns apart.
C20_Witness ==
    /\ unit.op = "graph"
    /\ \/ unit.a \div 3 > unit.b \div 3 /\ unit.ab
       \/ unit.a = unit.b /\ ~unit.ab
       \/ unit.a \div 3 = unit.b \div 3 /\ unit.a # unit.b /\ ~unit.ab

\* The lookup set and the draw-order list of es hold the same edges and the
\* list holds none twice.
SetMatchesList(es) ==
    /\ es.edges = {es.draw_order[i] : i \in 1..Len(es.draw_order)}
    /\ \A i, j \in 1..Len(es.draw_order) : es.draw_order[i] = es.draw_order[j] => i = j
    /\ Len(es.draw_order) = Cardinality(es.edges)

\* C19: after any sequence of add, pop and clear the lookup set and the
\* draw-order list hold exactly the same edges, none twice; add of an edge
\* already present returns false and changes nothing; pop returns and removes
\* the most recently inserted edge, or returns nothing on an empty collection.
C19_EdgeSetInvariant ==
    [][ /\ SetMatchesList(unit.es)
        /\ SetMatchesList(unit'.es)
        /\ (unit'.op = "add" /\ unit'.edge \in unit.es.edges)
               => ~unit'.ret /\ unit'.es = unit.es
        /\ (unit'.op = "add" /\ unit'.edge \notin unit.es.edges)
               => unit'.ret /\ unit'.es.edges = unit.es.edges \cup {unit'.edge}
        /\ (unit'.op = "pop" /\ unit.inserted # <<>>)
               => /\ unit'.ret
                  /\ unit'.edge = unit.inserted[Len(unit.inserted)]
                  /\ unit'.es.edges = unit.es.edges \ {unit'.edge}
                  /\ Len(unit'.es.draw_order) = Len(unit.es.draw_order) - 1
        /\ (unit'.op = "pop" /\ unit.inserted = <<>>)
               => ~unit'.ret /\ unit'.es = unit.es /\ unit.es.edges = {} ]_vars

\* pop returned an edge and left two or more behind, the older of them the
\* larger pair; or add was given an edge the collection of three or more held.
C19_Witness ==
    \/ /\ unit.op = "pop"
       /\ unit.ret
       /\ Len(unit.es.draw_order) >= 2
       /\ unit.es.draw_order[1][1] > unit.es.draw_order[2][1]
    \/ /\ unit.op = "add"
       /\ ~unit.ret
       /\ Len(unit.es.draw_order) >= 3

\* The edges a Solution held by its iteration order is made of.
EdgesOf(it) == {it[i] : i \in 1..Len(it)}

\* C17: two Solutions are equal exactly when their edge sets are equal;
\* Solutions of the same edges, however inserted and iterated, are equal and
\* have equal hashes, so a hash-set lookup with one finds the other; Solutions
\* of different edge sets are unequal and the lookup does not find them.
C17_SolutionEquality ==
    unit.op = "solutions"
        => /\ SolutionEq(unit.sol1, unit.sol2) = (EdgesOf(unit.sol1) = EdgesOf(unit.sol2))
           /\ EdgesOf(unit.sol1) = EdgesOf(unit.sol2)
                  => /\ SolutionHashOfIter(unit.sol1) = SolutionHashOfIter(unit.sol2)
                     /\ HashSetLookup({unit.sol1}, unit.sol2)
                     /\ HashSetLookup({unit.sol2}, unit.sol1)
           /\ EdgesOf(unit.sol1) # EdgesOf(unit.sol2)
                  => /\ ~SolutionEq(unit.sol2, unit.sol1)
                     /\ ~HashSetLookup({unit.sol1}, unit.sol2)

\* Two Solutions of the same three or more edges that iterate in different
\* orders; or two Solutions of which one holds the edges of the other and one
\* more.
C17_Witness ==
    /\ unit.op = "solutions"
    /\ \/ /\ Len(unit.sol1) >= 3
          /\ EdgesOf(unit.sol1) = EdgesOf(unit.sol2)
          /\ unit.sol1 # unit.sol2
       \/ /\ Len(unit.sol1) >= 2
          /\ EdgesOf(unit.sol1) \subseteq EdgesOf(unit.sol2)
          /\ EdgesOf(unit.sol1) # EdgesOf(unit.sol2)

\* C15: whatever add, undo and reset calls are made, the edge collection never
\* holds more than 17 edges, in its lookup set or in its draw order.
C15_AtMost17Edges ==
    /\ EdgeSetLen(edges) <= 17
    /\ Len(edges.draw_order) <= 17

\* 17 edges are drawn, three pairs of neighbours are left without an edge, and
\* an add was rejected there.
C15_Witness ==
    /\ EdgeSetLen(edges) = 17
    /\ Cardinality({e \in {EdgeNew(a, b) : a, b \in NodeIds} :
                        are_adjacent(e[1], e[2]) /\ ~EdgeSetContains(edges, e)}) = 3
    /\ Rejected

\* C21: the 8 symmetries applied to a vector of 9 pairwise distinct entries
\* give 8 pairwise distinct vectors, and the identity symmetry gives back the
\* vector it was given.
C21_SymmetryClosure ==
    /\ unit.op = "images"
          => /\ \A i, j \in 1..8 : unit.results[i] = unit.results[j] => i = j
             /\ Cardinality({unit.results[i] : i \in 1..8}) = 8
             /\ \A c \in 0..8 : unit.results[1][c] = unit.valences[c]
    /\ (unit.op = "image" /\ unit.symmetry = "Identity")
          => \A c \in 0..8 : unit.result[c] = unit.valences[c]

\* The 8 symmetries were applied to a vector that does not start at 1 and
\* whose corners hold four different values.
C21_Witness ==
    /\ unit.op = "images"
    /\ unit.valences[0] # 1
    /\ Cardinality({unit.valences[c] : c \in {0, 2, 6, 8}}) = 4
    /\ unit.results[8] # unit.results[3]

\* For each cell j of a symmetry's result, the cell whose value it holds, by
\* what the symmetry makes of a vector whose entries tell the cells apart.
SourceCells(symmetry) ==
    LET image == apply_symmetry([d \in 0..8 |-> 10 + d], symmetry)
    IN [j \in 0..8 |-> image[j] - 10]

\* How many cells of v hold the value x.
CountOf(v, x) == Cardinality({c \in 0..8 : v[c] = x})

\* C22: each symmetry acts on a valence vector as a permutation of the 9 cells
\* that preserves king adjacency; the transformed configuration has the same
\* multiset of valences; and the trail of a base session, carried over cell by
\* cell, is accepted by a session on the transformed configuration add for
\* add, leaves the image of the base valences, completes it exactly when the
\* base was complete, and an add the base rejected is rejected for the same
\* reason.
C22_SymmetryEquivalence ==
    /\ unit.op = "base"
          => \A p \in {SourceCells(unit.symmetry)} :
             /\ {p[j] : j \in 0..8} = 0..8
             /\ \A i, j \in 0..8 : KingStep(i, j) = KingStep(p[i], p[j])
    /\ unit.op = "variant"
          => \A p \in {SourceCells(unit.symmetry)} :
             /\ \A j \in 0..8 : puzzle_valences[j] = unit.base[p[j]]
             /\ \A x \in 0..9 : CountOf(puzzle_valences, x) = CountOf(unit.base, x)
             /\ Len(current_trail) <= Len(unit.trail)
             /\ \A i \in 1..Len(current_trail) : p[current_trail[i]] = unit.trail[i]
             /\ (last.op = "add" /\ last.kind = "Invalid")
                   => /\ Len(current_trail) = Len(unit.trail)
                      /\ unit.rejected.some
                      /\ p[last.node] = unit.rejected.node
                      /\ last.err = unit.rejected.err
             /\ Len(current_trail) = Len(unit.trail)
                   => /\ is_complete(current_valences) = unit.completed
                      /\ \A j \in 0..8 : current_valences[j] = unit.valences[p[j]]
                      /\ (last.op = "add" /\ last.kind # "Invalid")
                            => (last.kind = "Complete") = unit.completed

\* Under a symmetry other than the identity the variant was played to the end
\* of the base trail: to completion over three or more edges; or short of it,
\* where the add the base had rejected was rejected again.
C22_Witness ==
    /\ unit.op = "variant"
    /\ unit.symmetry # "Identity"
    /\ puzzle_valences # unit.base
    /\ Len(current_trail) = Len(unit.trail)
    /\ \/ unit.completed /\ last.kind = "Complete" /\ EdgeSetLen(edges) >= 3
       \/ ~unit.completed /\ Len(current_trail) >= 2
             /\ last.op = "add" /\ last.kind = "Invalid" /\ last.err # "NodeHasNoValence"

\* The texts of the non-negative integers the corpus lines are written with.
NumberTexts == {"0", "1", "2", "3"}

\* The number a text of NumberTexts stands for.
NumberOf(text) == CHOOSE n \in 0..3 : text = <<"0", "1", "2", "3">>[n + 1]

\* A line of exactly 10 comma-separated non-negative integers.
TenNumbers(line) == Len(line) = 10 /\ \A k \in 1..10 : line[k] \in NumberTexts

\* The numbers of the lines of a corpus that hold something, in order.
NonEmptyLines(csv) == {i \in 1..Len(csv) : csv[i] # <<"">>}

\* The records a well-formed corpus holds at complexity c, in corpus order.
RECURSIVE RecordsAt(_, _, _)
RecordsAt(csv, c, n) ==
    IF n = 0 THEN <<>>
    ELSE IF n \in NonEmptyLines(csv) /\ NumberOf(csv[n][10]) = c
         THEN Append(RecordsAt(csv, c, n - 1),
                     [cell \in 0..8 |-> NumberOf(csv[n][cell + 1])])
         ELSE RecordsAt(csv, c, n - 1)

\* C25: loading fails if some non-empty line is not exactly 10 comma-separated
\* non-negative integers, naming the first such line by its 1-based number
\* with the empty lines counted; it fails if the corpus holds no record; else
\* it succeeds and every non-empty line is one record, stored under its
\* complexity in corpus order.
C25_LoadCorpus ==
    unit.op = "from_csv"
        => LET csv == unit.csv_data
               bad == {i \in NonEmptyLines(csv) : ~TenNumbers(csv[i])}
           IN IF bad # {}
              THEN /\ ~unit.result.ok
                   /\ unit.result.line \in bad
                   /\ \A i \in bad : unit.result.line <= i
              ELSE IF NonEmptyLines(csv) = {}
              THEN ~unit.result.ok /\ unit.result.reason = "No puzzles loaded from CSV"
              ELSE /\ unit.result.ok
                   /\ \A c \in 0..3 :
                         IF RecordsAt(csv, c, Len(csv)) = <<>>
                         THEN c \notin DOMAIN unit.result.library
                         ELSE /\ c \in DOMAIN unit.result.library
                              /\ unit.result.library[c] = RecordsAt(csv, c, Len(csv))
                   /\ DOMAIN unit.result.library \subseteq 0..3

\* Loading failed at a malformed line that came after an empty line and was
\* not the last line; or it loaded two records of one complexity around an
\* empty line; or it failed on a corpus of empty lines only.
C25_Witness ==
    /\ unit.op = "from_csv"
    /\ \/ /\ ~unit.result.ok
          /\ unit.result.line = 2
          /\ unit.csv_data[1] = <<"">>
          /\ Len(unit.csv_data) = 3
       \/ /\ unit.result.ok
          /\ Len(unit.csv_data) = 3
          /\ unit.csv_data[2] = <<"">>
          /\ \E c \in DOMAIN unit.result.library : Len(unit.result.library[c]) = 2
       \/ /\ ~unit.result.ok
          /\ Len(unit.csv_data) >= 2
          /\ NonEmptyLines(unit.csv_data) = {}

\* C27: available_complexities returns, strictly ascending, exactly the
\* complexities whose puzzle_count is above 0, and puzzle_count(c) is the
\* number of corpus records of complexity c, 0 when there is none.
C27_CountsAndComplexities ==
    /\ unit.op = "puzzle_count"
          => unit.count =
                Cardinality({i \in NonEmptyLines(unit.csv_data) :
                                NumberOf(unit.csv_data[i][10]) = unit.complexity})
    /\ unit.op = "available_complexities"
          => /\ \A i, j \in 1..Len(unit.complexities) :
                   i < j => unit.complexities[i] < unit.complexities[j]
             /\ {unit.complexities[i] : i \in 1..Len(unit.complexities)} =
                   {c \in 0..3 : puzzle_count(unit.result.library, c) > 0}
             /\ {unit.complexities[i] : i \in 1..Len(unit.complexities)} =
                   {NumberOf(unit.csv_data[i][10]) : i \in NonEmptyLines(unit.csv_data)}

\* Two complexities are available, the larger loaded first; or the count of a
\* complexity with two records, or of an absent one, was asked for while two
\* complexities are loaded.
C27_Witness ==
    \/ /\ unit.op = "available_complexities"
       /\ Len(unit.complexities) = 2
       /\ unit.csv_data[1][10] = "2"
    \/ /\ unit.op = "puzzle_count"
       /\ unit.count = 2
       /\ Cardinality(DOMAIN unit.result.library) = 2
    \/ /\ unit.op = "puzzle_count"
       /\ unit.count = 0
       /\ Cardinality(DOMAIN unit.result.library) = 2

\* C23: a tour of complexity c that starts with nothing excluded and feeds
\* every returned index back gets a result from every call: a puzzle of
\* complexity c whose index is below puzzle_count(c) and was not excluded
\* when it was asked for (so the indices are pairwise distinct), or, exactly
\* once puzzle_count(c) puzzles have been returned, none available.
C23_TourEnumeratesAll ==
    unit.op = "untried_puzzle" /\ unit.start = <<>>
        => LET count == IF unit.complexity \in DOMAIN unit.library
                        THEN Len(unit.library[unit.complexity]) ELSE 0
           IN /\ unit.result.kind \in {"Some", "None"}
              /\ unit.found = Len(unit.tried)
              /\ unit.found <= count
              /\ \A i, j \in 1..Len(unit.tried) :
                    /\ unit.tried[i] \in 0..(count - 1)
                    /\ i # j => unit.tried[i] # unit.tried[j]
              /\ unit.result.kind = "None" => unit.found = count
              /\ unit.result.kind = "Some"
                    => /\ unit.result.complexity = unit.complexity
                       /\ unit.result.index = unit.tried[Len(unit.tried)]

\* The indices a list of tried indices holds.
IndicesIn(tried) == {tried[k] : k \in 1..Len(tried)}

\* C24: a lookup of a complexity the library does not hold gives None, from
\* random_puzzle and from untried_puzzle alike, and so does untried_puzzle
\* when the list it is given holds every index of that complexity; no step
\* changes the library.
C24_EmptyResults ==
    [][/\ unit'.library = unit.library
       /\ (unit'.op = "random_puzzle" /\ unit'.complexity \notin DOMAIN unit.library)
             => unit'.result.kind = "None"
       /\ (/\ unit'.op = "untried_puzzle"
           /\ \/ unit.complexity \notin DOMAIN unit.library
              \/ \A idx \in 0..(Len(unit.library[unit.complexity]) - 1) :
                    idx \in IndicesIn(unit.tried))
             => unit'.result.kind = "None" /\ unit'.tried = unit.tried]_vars

\* None came back from a tour that had returned all three puzzles of a
\* complexity, from a tour of an absent complexity, from a tour given the
\* three indices at the start, and from random_puzzle of an absent complexity.
C24_Witness ==
    /\ unit.result.kind = "None"
    /\ \/ /\ unit.op = "untried_puzzle"
          /\ unit.start = <<>>
          /\ unit.found = 3
       \/ /\ unit.op = "untried_puzzle"
          /\ unit.complexity \notin DOMAIN unit.library
       \/ /\ unit.op = "untried_puzzle"
          /\ unit.start = <<0, 1, 2>>
          /\ unit.complexity \in DOMAIN unit.library
       \/ /\ unit.op = "random_puzzle"
          /\ unit.complexity \notin DOMAIN unit.library

\* C26: random_puzzle at the complexity of a record, and untried_puzzle at it
\* while a record is left untried, return a configuration: its complexity is
\* the one asked for, its valences are the image of a base record of that
\* complexity under one of the 8 symmetries, and its total_solutions is
\* complexity div (sum(valences) div 2).
C26_EstimatedTotal ==
    /\ unit.op = "random_puzzle" /\ unit.complexity \in DOMAIN unit.library
          => unit.result.kind = "Some"
    /\ unit.op = "untried_puzzle" /\ unit.result.kind # "None"
          => unit.result.kind = "Some"
    /\ unit.op \in {"random_puzzle", "untried_puzzle"} /\ unit.result.kind = "Some"
          => \A v \in {unit.result.valences} :
                /\ unit.result.complexity = unit.complexity
                /\ \E k \in 1..Len(unit.library[unit.complexity]), symmetry \in Symmetries :
                      \A p \in {SourceCells(symmetry)} :
                         \A c \in NodeIds : v[c] = unit.library[unit.complexity][k][p[c]]
                /\ \A half \in {(v[0] + v[1] + v[2] + v[3] + v[4] + v[5] + v[6] + v[7] + v[8]) \div 2} :
                      /\ half > 0
                      /\ unit.result.total_solutions = unit.complexity \div half

\* C28: the level of a tracker stays within 1..217; advance_level moves level
\* L to L + 1, and 217 to 1, and leaves completed_at_level at 0; 217 calls in
\* a row bring the level back to where they started, and current_complexity
\* never indexes outside the table.
C28_LevelStaysInRange ==
    unit.op \in {"new", "advance_level", "current_complexity", "panic"}
        => /\ unit.tracker.current_level \in 1..217
           /\ unit.op # "panic"
           /\ unit.tracker.current_level - 1 \in 0..(Len(LEVEL_TO_COMPLEXITY) - 1)
           /\ unit.before # 0
                 => /\ unit.tracker.completed_at_level = 0
                    /\ unit.before < 217 => unit.tracker.current_level = unit.before + 1
                    /\ unit.before = 217 => unit.tracker.current_level = 1
           /\ unit.calls = 0 => unit.tracker.current_level = unit.start
           /\ unit.tracker.current_level = ((unit.start - 1 + unit.calls) % 217) + 1

\* The default tracker has been advanced from 217 back to 1 (217 calls), and
\* its complexity asked for at both levels.
C28_Witness ==
    /\ unit.op = "current_complexity"
    /\ unit.start = 1
    /\ unit.before = 217
    /\ unit.tracker.current_level = 1
    /\ unit.calls = 0
    /\ unit.complexity_before = 960

\* C29: the table has 217 entries, each larger than the one before (so they
\* are pairwise distinct); level 1 gives complexity 1, level 19 gives 20 and
\* level 217 gives 960; the complexity asked for after advance_level is larger
\* than the one asked for before it, except at the wrap from 217 to 1, where
\* it is smaller.
C29_ComplexityAscending ==
    /\ unit.op = "new"
          => /\ Len(LEVEL_TO_COMPLEXITY) = 217
             /\ \A l \in 1..216 : LEVEL_TO_COMPLEXITY[l] < LEVEL_TO_COMPLEXITY[l + 1]
    /\ unit.op = "current_complexity"
          => /\ unit.tracker.current_level = 1 => unit.complexity = 1
             /\ unit.tracker.current_level = 19 => unit.complexity = 20
             /\ unit.tracker.current_level = 217 => unit.complexity = 960
             /\ unit.complexity_before # 0
                   => IF unit.before = 217
                      THEN unit.complexity < unit.complexity_before
                      ELSE unit.complexity > unit.complexity_before

\* The complexity was asked for at levels 18 and 19, where the table skips a
\* value, or at 217 and then at 1.
C29_Witness ==
    /\ unit.op = "current_complexity"
    /\ \/ /\ unit.tracker.current_level = 19
          /\ unit.complexity_before = 18
          /\ unit.complexity = 20
       \/ /\ unit.tracker.current_level = 1
          /\ unit.complexity_before = 960
          /\ unit.complexity = 1

\* What C30 says of one state: progress() gives the number of distinct edge
\* sets completed since the puzzle was set, Some total, and the number of
\* edges drawn, which is one less than the cells of a trail of two or more;
\* its is_complete is true exactly when that number of solutions is at least
\* the total.
ProgressAsStated ==
    \A info \in {progress} :
       /\ info.solutions_found = Cardinality(completions)
       /\ info.total_solutions.some
       /\ info.current_edges = Len(edges.draw_order)
       /\ info.current_edges = Max(Len(current_trail) - 1, 0)
       /\ ProgressInfoIsComplete(info)
             <=> Cardinality(completions) >= info.total_solutions.value

\* C30: progress() reports the distinct solutions found in the session, the
\* expected total given when the puzzle was set (by new or new_puzzle, and by
\* nothing else), and the edges currently drawn; is_complete holds if and only
\* if the found count is at least the expected total.
C30_Progress ==
    [][/\ ProgressAsStated
       /\ ProgressAsStated'
       /\ progress'.total_solutions.value =
             IF last'.op = "new_puzzle" THEN last'.total ELSE progress.total_solutions.value]_vars

\* Progress is complete with a solution found and edges drawn again; or not
\* complete with edges drawn and the one expected solution not yet found.
C30_Witness ==
    \/ /\ progress.solutions_found >= 1
       /\ progress.total_solutions.value = 1
       /\ progress.current_edges >= 1
       /\ ProgressInfoIsComplete(progress)
    \/ /\ progress.solutions_found = 0
       /\ progress.total_solutions.value = 1
       /\ progress.current_edges >= 1
       /\ ~ProgressInfoIsComplete(progress)

\* C31: in every reachable state, for every cell, the current valence plus the
\* number of drawn edges at the cell (degree, and equally the number of
\* entries of the draw order that have the cell as an end) is the target
\* valence; so no current valence is above its target.
C31_ValencePlusDegree ==
    \A c \in NodeIds :
       /\ current_valences[c] + degree(edges, c) = puzzle_valences[c]
       /\ current_valences[c] +
             Cardinality({i \in 1..Len(edges.draw_order) :
                             edges.draw_order[i][1] = c \/ edges.draw_order[i][2] = c})
             = puzzle_valences[c]
       /\ current_valences[c] <= puzzle_valences[c]

\* A cell has two drawn edges and has used up its target of 2, while another
\* cell still has valence left; or an undo has given an edge's valence back.
C31_Witness ==
    \/ \E c, d \in NodeIds :
          /\ degree(edges, c) = 2
          /\ current_valences[c] = 0
          /\ current_valences[d] > 0
    \/ /\ last.op = "undo"
       /\ last.removed
       /\ Len(edges.draw_order) >= 1

\* C32: the Solution a Complete result carries is exactly the set of edges of
\* the edge collection at that moment (its set and its draw order alike); in
\* it every cell has as many edges as its target valence, so it has
\* sum(target) / 2 edges.
C32_CompleteSolution ==
    last.op = "add" /\ last.kind = "Complete"
        => /\ last.solution = edges.edges
           /\ last.solution = {edges.draw_order[i] : i \in 1..Len(edges.draw_order)}
           /\ \A c \in NodeIds :
                 Cardinality({e \in last.solution : e[1] = c \/ e[2] = c}) = puzzle_valences[c]
           /\ 2 * Cardinality(last.solution) =
                 puzzle_valences[0] + puzzle_valences[1] + puzzle_valences[2]
                 + puzzle_valences[3] + puzzle_valences[4] + puzzle_valences[5]
                 + puzzle_valences[6] + puzzle_valences[7] + puzzle_valences[8]

\* A Complete result carries a solution of three edges or more, one cell
\* having two of them.
C32_Witness ==
    /\ last.op = "add"
    /\ last.kind = "Complete"
    /\ Cardinality(last.solution) >= 3
    /\ \E c \in NodeIds : puzzle_valences[c] = 2

\* The sum of the current valences, cell by cell.
RemainingTotal ==
    current_valences[0] + current_valences[1] + current_valences[2]
    + current_valences[3] + current_valences[4] + current_valences[5]
    + current_valences[6] + current_valences[7] + current_valences[8]

\* C33: an add that draws an edge reports puzzle complete if and only if the
\* total remaining valence was exactly 2 right before the call: every add
\* accepted on a non-empty trail at total 2 completes, none accepted above 2
\* does.
C33_CompleteIffLastEdge ==
    [][/\ (last'.op = "add" /\ last'.kind \in {"Complete", "EdgeAdded"})
             => /\ current_trail # <<>>
                /\ last'.kind = "Complete" <=> RemainingTotal = 2
       /\ (last'.op = "add" /\ last'.kind # "Invalid" /\ current_trail # <<>>)
             => /\ RemainingTotal = 2 => last'.kind = "Complete"
                /\ RemainingTotal > 2 => last'.kind = "EdgeAdded"]_vars

\* An add completed a puzzle of three edges or more; or an add was accepted
\* as an edge while more than 2 was left, of which 2 is left now.
C33_Witness ==
    \/ /\ last.op = "add"
       /\ last.kind = "Complete"
       /\ Len(edges.draw_order) >= 3
    \/ /\ last.op = "add"
       /\ last.kind = "EdgeAdded"
       /\ RemainingTotal = 2

\* The attempt is complete: edges are drawn and no cell has valence left.
AttemptComplete ==
    /\ edges.draw_order # <<>>
    /\ \A c \in NodeIds : current_valences[c] = 0

\* C34: after an add reported puzzle complete the attempt stays complete
\* through any number of further adds: each of them, for whatever cell, is
\* rejected with NodeHasNoValence and changes neither valences, edges, trail
\* nor found solutions; the attempt is complete only right after the
\* completing add or after such rejected adds, so only an undo, a reset or a
\* new puzzle ends it, and it is never reported complete a second time.
C34_CompleteIsFinal ==
    [][/\ (last.op = "add" /\ last.kind = "Complete") => AttemptComplete
       /\ AttemptComplete
             => /\ last.op = "add"
                /\ \/ last.kind = "Complete"
                   \/ last.kind = "Invalid" /\ last.err = "NodeHasNoValence"
       /\ (AttemptComplete /\ last'.op = "add")
             => /\ last'.kind = "Invalid"
                /\ last'.err = "NodeHasNoValence"
                /\ UNCHANGED <<puzzle_valences, current_valences, edges, current_trail,
                               found_solutions, total_solutions>>
                /\ AttemptComplete']_vars

\* A cell next to the end of a completed trail, not joined to it by an edge,
\* was added and rejected.
C34_Witness ==
    /\ AttemptComplete
    /\ last.op = "add"
    /\ last.kind = "Invalid"
    /\ last.err = "NodeHasNoValence"
    /\ last.node # current_trail[Len(current_trail)]
    /\ KingStep(last.node, current_trail[Len(current_trail)])
    /\ \A i \in 1..Len(edges.draw_order) :
          edges.draw_order[i] # <<last.node, current_trail[Len(current_trail)]>>
          /\ edges.draw_order[i] # <<current_trail[Len(current_trail)], last.node>>

\* C35: in every reachable state every edge of the edge collection joins two
\* different cells a king's move apart, and no edge is there twice, in either
\* direction.
C35_EdgesAreKingSteps ==
    /\ \A e \in edges.edges : e[1] # e[2] /\ KingStep(e[1], e[2])
    /\ \A d \in {edges.draw_order} :
          \A i \in 1..Len(d) :
             /\ d[i][1] \in NodeIds /\ d[i][2] \in NodeIds
             /\ d[i][1] # d[i][2]
             /\ KingStep(d[i][1], d[i][2])
             /\ \A j \in (i + 1)..Len(d) :
                   d[j] # d[i] /\ d[j] # <<d[i][2], d[i][1]>>

\* Four edges are drawn, one of them diagonal and two of them at one cell.
C35_Witness ==
    /\ Len(edges.draw_order) >= 4
    /\ \E e \in edges.edges : e[2] - e[1] \in {2, 4}
    /\ \E c \in NodeIds : Cardinality({e \in edges.edges : e[1] = c \/ e[2] = c}) >= 2

\* C36: every undo on a non-empty trail shortens the trail by exactly one
\* cell, so a trail of n cells is empty after exactly n undos and not before;
\* the state an undo leaves with an empty trail is the state a single reset
\* would have left (current valences equal to the target, no edges, empty
\* trail); an undo on an empty trail changes nothing.
C36_UndoToEmptyIsReset ==
    [][last'.op = "undo"
          => /\ current_trail # <<>>
                   => /\ Len(current_trail') = Len(current_trail) - 1
                      /\ current_trail' = SubSeq(current_trail, 1, Len(current_trail) - 1)
             /\ current_trail = <<>>
                   => UNCHANGED <<puzzle_valences, current_valences, edges, current_trail,
                                  found_solutions, total_solutions>>
             /\ current_trail' = <<>>
                   => /\ current_valences' = GameReset.current_valences
                      /\ edges' = GameReset.edges
                      /\ current_trail' = GameReset.current_trail
                      /\ current_valences' = puzzle_valences
                      /\ edges'.edges = {}
                      /\ edges'.draw_order = <<>>
             /\ UNCHANGED <<puzzle_valences, found_solutions, total_solutions>>]_vars

\* An undo took the last cell off a trail that had drawn edges; or an undo
\* emptied the trail (it removes no edge then), leaving valence to draw with.
C36_Witness ==
    /\ last.op = "undo"
    /\ \/ /\ last.removed
          /\ Len(current_trail) >= 2
       \/ /\ ~last.removed
          /\ current_trail = <<>>
          /\ \E c \in NodeIds : puzzle_valences[c] = 2

\* C37: while the trail is not empty, valid_next_nodes, nodes_that_should_flee
\* and the trail's last cell split the 9 cells into three disjoint parts, the
\* last cell being in neither list; and valid_next_nodes holds exactly the
\* cells whose add is accepted, the rejected ones other than the last cell
\* being in the flee list.
C37_ValidFleeLast ==
    [][/\ current_trail # <<>>
             => \A end \in {current_trail[Len(current_trail)]} :
                   /\ valid_next_nodes \cap nodes_that_should_flee = {}
                   /\ end \notin valid_next_nodes
                   /\ end \notin nodes_that_should_flee
                   /\ valid_next_nodes \cup nodes_that_should_flee \cup {end} = 0..8
       /\ (current_trail # <<>> /\ last'.op = "add")
             => /\ last'.kind # "Invalid" <=> last'.node \in valid_next_nodes
                /\ (last'.kind = "Invalid" /\ last'.node # current_trail[Len(current_trail)])
                      <=> last'.node \in nodes_that_should_flee]_vars

\* On a trail with an edge drawn some cell can be added and another cell than
\* the last one must flee; or the puzzle is complete and all but the last
\* cell flee.
C37_Witness ==
    /\ current_trail # <<>>
    /\ \/ /\ Len(current_trail) >= 2
          /\ valid_next_nodes # {}
          /\ \E c \in nodes_that_should_flee : current_valences[c] > 0
       \/ /\ valid_next_nodes = {}
          /\ Cardinality(nodes_that_should_flee) = 8
          /\ last.kind = "Complete"

\* C38 as stated: a session of a library configuration with zero solutions
\* found never reports progress complete, so a session that reports progress
\* complete has found a solution.
C38_FreshNeverComplete ==
    ProgressInfoIsComplete(progress) => found_solutions # {}

\* C38: a session with zero solutions found reports progress complete exactly
\* when its expected total is 0; progress turns complete only by a completing
\* add reported as new, or by the replacement of the session with one whose
\* expected total is 0.
C38_CompleteFromStart ==
    [][/\ found_solutions = {} =>
              (ProgressInfoIsComplete(progress) <=> total_solutions = 0)
       /\ ~ProgressInfoIsComplete(progress) /\ ProgressInfoIsComplete(progress)' =>
              \/ last'.op = "add" /\ last'.kind = "Complete" /\ last'.is_new
              \/ last'.op = "new" /\ total_solutions' = 0 /\ found_solutions' = {}]_vars

\* A session of expected total 1 made of a library configuration has just
\* turned complete by a new completing add.
C38_Witness ==
    /\ last.op = "add"
    /\ last.kind = "Complete"
    /\ last.is_new
    /\ total_solutions = 1
    /\ Cardinality(found_solutions) = 1
    /\ ProgressInfoIsComplete(progress)


\* C39 as stated: whenever check_level_progression advances the tracker, the
\* session's progress was complete, the level moves one step (217 wrapping to
\* 1), and the active session is replaced by a fresh one, with no solution
\* found, made of a configuration of the new level's complexity.
C39_AdvanceReplacesSession ==
    [][unit'.tracker # unit.tracker =>
          /\ unit'.op = "check_level_progression"
          /\ ProgressInfoIsComplete(progress)
          /\ unit'.tracker.current_level =
                 IF unit.tracker.current_level >= MAX_LEVEL
                 THEN 1
                 ELSE unit.tracker.current_level + 1
          /\ unit'.replaced
          /\ last'.op = "new"
          /\ found_solutions' = {}
          /\ current_trail' = <<>>
          /\ unit'.config_complexity = current_complexity(unit'.tracker).value]_vars


\* C40: after the pointer handler has processed an Up event, or an add on
\* Down or Move that completed the puzzle, the drag state is not dragging,
\* flee mode is inactive, the trail and the edge set are empty, the current
\* valences are the target ones and every solution found before is still
\* found; after an Up event a Down on a node of the puzzle starts a trail of
\* that node alone.
C40_UpAndCompleteEndTheAttempt ==
    [][/\ \/ unit'.op = "Up"
          \/ unit'.op \in {"Down", "Move"} /\ last'.op = "add" /\ last'.kind = "Complete"
          => /\ ~unit'.is_dragging
             /\ ~unit'.flee_mode.active
             /\ current_trail' = <<>>
             /\ edges'.edges = {}
             /\ edges'.draw_order = <<>>
             /\ current_valences' = puzzle_valences'
             /\ found_solutions \subseteq found_solutions'
             /\ puzzle_valences' = puzzle_valences
             /\ total_solutions' = total_solutions
       /\ unit.op = "Up" /\ unit'.op = "Down" /\ last'.op = "add" =>
             \/ last'.kind = "FirstNode" /\ current_trail' = <<last'.node>>
                    /\ edges'.edges = {}
             \/ last'.kind = "Invalid" /\ current_trail' = <<>>
                    /\ puzzle_valences[last'.node] = 0]_vars

\* A Move has just completed the puzzle with a new solution, the drag and the
\* attempt ended with it.
C40_Witness ==
    /\ unit.op = "Move"
    /\ last.op = "add"
    /\ last.kind = "Complete"
    /\ last.is_new
    /\ ~unit.is_dragging
    /\ current_trail = <<>>
    /\ found_solutions # {}


====
